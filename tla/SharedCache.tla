---------------------------- MODULE SharedCache ----------------------------
(***************************************************************************)
(* The answers of the public views behind an HTTP cache that several       *)
(* callers share.  A view answers by who asks, in which language; the      *)
(* after_request hooks write Vary, Cache-Control and the encoding; and the *)
(* cache, which knows nothing but those headers, decides whom the stored   *)
(* answer is good for.                                                     *)
(***************************************************************************)
EXTENDS Naturals, FiniteSets

CONSTANTS Asked,         \* the URLs callers ask for
          None,
          MaxRequests    \* bound

VARIABLES store,         \* what the cache holds
          served,        \* the last request and the answer its caller got
          asked          \* requests so far

vars == <<store, served, asked>>

\* A caller: a guest, a guest holding the deletion token of this very link, a
\* signed-in stranger, the owner, or an account with the full permissions.
Who == {"guest", "maker", "stranger", "owner", "admin"}
Languages == {"en", "ru"}

\* The request headers an answer may depend on.  A signed-in caller's cookies
\* carry the session beside the language.
Requests ==
  [url : Asked, who : Who, lang : Languages \cup {None}, accept : Languages, gzip : BOOLEAN]

SignedIn(q) == q.who \in {"stranger", "owner", "admin"}

Header(q, h) ==
  CASE h = "Cookie" -> <<q.lang, IF SignedIn(q) THEN q.who ELSE None>>
    [] h = "Accept-Language" -> q.accept
    [] h = "Accept-Encoding" -> q.gzip
    [] h = "X-Deletion-Token" -> q.who = "maker"

Init == store = {} /\ served = None /\ asked = 0

-----------------------------------------------------------------------------
(* The views *)

SelectLanguage(q) == IF q.lang # None THEN q.lang ELSE q.accept

CanViewLinkDetails(q) == q.who \in {"owner", "admin"}

\* made_this_link, which also notes that the header was read and that it fit.
MadeThisLink(q) == q.who = "maker"

Drawn(status, type, lang, full) ==
  [status |-> status, type |-> type, lang |-> lang, full |-> full, read |-> FALSE,
   matched |-> FALSE, vary |-> {}, cache |-> "unsaid", gzip |-> FALSE]

Json(q, status, full) == Drawn(status, "json", SelectLanguage(q), full)

TokenRead(q, r) == [r EXCEPT !.read = TRUE, !.matched = MadeThisLink(q)]

\* Counters and owner for whoever made the link or may see it, the rest of
\* the link for anybody.
GetLinkInfo(q) == TokenRead(q, Json(q, 200, MadeThisLink(q) \/ CanViewLinkDetails(q)))

GetExtendedLinkInfo(q) ==
  TokenRead(q, IF MadeThisLink(q) \/ CanViewLinkDetails(q) THEN Json(q, 200, TRUE)
               ELSE Json(q, IF SignedIn(q) THEN 403 ELSE 401, FALSE))

\* The same picture for everybody, and the only answer that says it may be kept.
GetLinkQr(q) == [Drawn(200, "svg", None, FALSE) EXCEPT !.cache = "public"]

\* The figures for anybody who may see them, the addresses in them for few.
GetStats(q) == Json(q, 200, q.who = "admin")

\* One link's traffic is asked about like the link itself.
GetVisitStats(q) ==
  IF CanViewLinkDetails(q) THEN Json(q, 200, TRUE)
  ELSE Json(q, IF SignedIn(q) THEN 403 ELSE 401, FALSE)

GetMyLinks(q) == IF SignedIn(q) THEN Json(q, 200, TRUE) ELSE Json(q, 401, FALSE)

\* render_template of a public page, and the redirect of a short link.
Index(q) == Drawn(200, "html", SelectLanguage(q), FALSE)
Redirect(q) == Drawn(302, "html", None, FALSE)

\* handle_link_not_found: an envelope under /api/, a page elsewhere.
NotFound(q) == IF q.url = "lost page" THEN Drawn(404, "html", SelectLanguage(q), FALSE)
               ELSE Json(q, 404, FALSE)

Static(q) == Drawn(200, "css", None, FALSE)

View(q) ==
  CASE q.url = "info" -> GetLinkInfo(q)
    [] q.url = "extended" -> GetExtendedLinkInfo(q)
    [] q.url = "qr" -> GetLinkQr(q)
    [] q.url = "stats" -> GetStats(q)
    [] q.url = "visits" -> GetVisitStats(q)
    [] q.url = "mine" -> GetMyLinks(q)
    [] q.url = "index" -> Index(q)
    [] q.url = "redirect" -> Redirect(q)
    [] q.url \in {"lost", "lost page"} -> NotFound(q)
    [] q.url = "static" -> Static(q)

-----------------------------------------------------------------------------
(* after_request *)

\* Pages that were drawn, and everything the API says.
Spoken(r) ==
  IF (r.status = 200 /\ r.type = "html") \/ r.type = "json"
  THEN {"Cookie", "Accept-Language"} ELSE {}

NoStore(q, r) == (r.read /\ r.matched) \/ (SignedIn(q) /\ q.url # "static")

\* Slip: an anonymous answer is let go before the deletion token is asked about.
MarkPrivate_ReturnEarly(q, r) ==
  [r EXCEPT !.vary = @ \cup Spoken(r),
            !.cache = IF SignedIn(q) /\ q.url # "static" THEN "no-store" ELSE @]

MarkPrivate(q, r) ==
  [r EXCEPT !.vary = @ \cup Spoken(r) \cup (IF r.read THEN {"X-Deletion-Token"} ELSE {}),
            !.cache = IF NoStore(q, r) THEN "no-store" ELSE @]

\* Vary is said whether or not this answer was packed.
Varies(q) == {"Accept-Encoding"}

\* A body too small, or one that would grow, is left as it is.
Compress(q, r, worth) ==
  IF r.type \in {"json", "html", "svg", "css"}
  THEN [r EXCEPT !.vary = @ \cup Varies(q), !.gzip = q.gzip /\ worth /\ r.status # 304]
  ELSE r

Respond(q, worth) == Compress(q, MarkPrivate(q, View(q)), worth)

-----------------------------------------------------------------------------
(* The cache (RFC 9111): what it may keep on its own judgement, and for    *)
(* whom a stored answer is good.                                           *)

Storable(r) == r.cache # "no-store" /\ (r.cache = "public" \/ r.status \in {200, 404})

Fits(q, e) == q.url = e.q.url /\ \A h \in e.r.vary : Header(q, h) = Header(e.q, h)

Forward(q, worth) ==
  LET r == Respond(q, worth) IN
  /\ asked < MaxRequests /\ asked' = asked + 1
  /\ served' = [q |-> q, r |-> r]
  /\ store' \in {store} \cup (IF Storable(r) THEN {store \cup {[q |-> q, r |-> r]}} ELSE {})

FromStore(q, e) ==
  /\ asked < MaxRequests /\ asked' = asked + 1
  /\ Fits(q, e) /\ served' = [q |-> q, r |-> e.r]
  /\ UNCHANGED store

\* An answer stored under another URL never fits: the URLs are looked at one
\* at a time.
OneUrl(q) == \A e \in store : e.q.url = q.url

Next ==
  \/ \E q \in {p \in Requests : OneUrl(p)}, worth \in BOOLEAN : Forward(q, worth)
  \/ \E q \in Requests, e \in store : FromStore(q, e)

Spec == Init /\ [][Next]_vars

-----------------------------------------------------------------------------
(* Properties *)

\* Type invariant.
TypeOK ==
  /\ asked \in 0..MaxRequests
  /\ \A e \in store : e.q \in Requests /\ e.r.cache \in {"unsaid", "public"}

\* Whoever is answered out of the cache gets what the service could have
\* answered them: nothing that was kept for another caller, counters, owners
\* and addresses (mark_private, presented_link_id); in the language they would
\* have been answered in, where it is in a language at all ("a shared cache
\* had every right to hand one visitor's page to the next"); and in an
\* encoding they can read (CompressionMiddleware).
ServedAsIfAsked ==
  served # None =>
    /\ served.r.full => View(served.q).full
    /\ served.r.lang \in {None, SelectLanguage(served.q)}
    /\ served.r.gzip => served.q.gzip
=============================================================================
