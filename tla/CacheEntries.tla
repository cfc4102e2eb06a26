---------------------------- MODULE CacheEntries ----------------------------
(***************************************************************************)
(* How long the caches keep what they are told: the entry of a link (the   *)
(* `code:` key; `hash:` is written and lives with it), its redirect entry  *)
(* and the statistics of the service, in Redis or in a process's memory.   *)
(* LinkLifecycle has the keys of many links and no clock; here there is    *)
(* one code, one cache and time passes.                                    *)
(*                                                                         *)
(* Time is counted in half seconds, so that the whole seconds of SETEX and *)
(* of a signature's stamp round.  Redis drops an entry by a clock of its   *)
(* own, which may run behind by Lag, and may evict one sooner.             *)
(***************************************************************************)
EXTENDS Integers

CONSTANTS
  Workers,      \* threads that serve requests
  LinkTtl,      \* CACHE_LINK_TTL, in seconds
  StatsTtl,     \* CACHE_STATS_TTL, in seconds
  Lifetimes,    \* lifetimes of the links created, in half seconds
  Lag,          \* how far behind the cache server's clock may run
  MaxStay,      \* bound: half seconds a request takes
  MaxClock,     \* bound on the clock
  MaxRequests,  \* bound on the requests ever started
  Never,        \* the expires_at of a permanent link
  None

VARIABLES
  backend,      \* "redis" or "memory"
  clock,
  row,          \* the link's row: its expires_at, or None
  kept,         \* kept[k]: the entry under key k
  expiry,       \* expiry[k]: when the cache drops it
  task,         \* task[w]: the request a worker serves
  requests,
  answer,       \* the answer the last step gave out of an entry or a row, if it did
  excused       \* the statistics were kept by a request that crossed a change,
                \* or were to be dropped and Redis could not be reached

vars == <<backend, clock, row, kept, expiry, task, requests, answer, excused>>

Keys == {"code", "redirect", "stats"}
Times == 0..(MaxClock + 2 * (LinkTtl + StatsTtl))
Entry == [read : Times, issued : Times, expires : Times \cup {Never, None}, total : 0..1]

Idle == [pc |-> "idle", began |-> 0, then |-> "idle", entry |-> None, crossed |-> FALSE]

\* Type invariant.
TypeOK ==
  /\ backend \in {"redis", "memory"} /\ clock \in 0..MaxClock
  /\ row \in Times \cup {Never, None}
  /\ kept \in [Keys -> Entry \cup {None}]
  /\ expiry \in [Keys -> Times \cup {None}]
  /\ \A w \in Workers :
       /\ task[w].pc \in {"idle", "redirect", "code", "warm", "row", "fill", "store", "drop",
                          "unstat", "stats", "count", "keep"}
       /\ task[w].began \in 0..clock
       /\ task[w].then \in {"idle", "stats"}
       /\ task[w].entry \in Entry \cup {None} /\ task[w].crossed \in BOOLEAN
  /\ requests \in 0..MaxRequests /\ excused \in BOOLEAN

Init ==
  /\ backend \in {"redis", "memory"} /\ clock = 0 /\ row = None
  /\ kept = [k \in Keys |-> None] /\ expiry = [k \in Keys |-> None]
  /\ task = [w \in Workers |-> Idle] /\ requests = 0 /\ answer = None /\ excused = FALSE

-----------------------------------------------------------------------------
(* Lifetimes.                                                              *)

Whole(t) == t \div 2
Smaller(a, b) == IF a < b THEN a ELSE b
Larger(a, b) == IF a > b THEN a ELSE b

IsExpired(expires) == expires # Never /\ clock >= expires

\* What is left of the link, at most the TTL; whole seconds and at least one
\* of them in Redis.
RedirectTtl(expires) ==
  IF expires = Never THEN 2 * LinkTtl
  ELSE LET remaining == expires - clock IN
       IF remaining <= 0 THEN None
       ELSE IF backend = "memory" THEN Smaller(2 * LinkTtl, remaining)
       ELSE 2 * Larger(1, Smaller(LinkTtl, Whole(remaining)))

\* Slip: the age of the stamp is not looked at.
Unseals_AnyAge(k) == TRUE

\* unseal: the stamp of the signature is no older than the TTL.
Unseals(k) == Whole(clock) - Whole(kept[k].issued) <= IF k = "stats" THEN StatsTtl ELSE LinkTtl

\* _clean_expired: the keys whose time is over leave every dictionary.
Emptied(k) == expiry[k] < clock

CleanExpired ==
  IF backend = "memory"
  THEN /\ kept' = [k \in Keys |-> IF expiry[k] # None /\ Emptied(k) THEN None ELSE kept[k]]
       /\ expiry' = [k \in Keys |-> IF expiry[k] # None /\ expiry[k] < clock
                                    THEN None ELSE expiry[k]]
  ELSE UNCHANGED <<kept, expiry>>

\* In memory: the key has not run out.
Held(k) == kept[k] # None /\ expiry[k] # None /\ expiry[k] >= clock

\* In Redis: the server has not dropped the entry and its stamp is accepted.
Opens(k) == kept[k] # None /\ clock < expiry[k] + Lag /\ Unseals(k)

\* What a read of the key may hand out.  Redis may not be reached, and what
\* cannot be decoded or was written for another key is a miss.
Reads(k) ==
  IF backend = "memory" THEN IF Held(k) THEN {kept[k]} ELSE {None}
  ELSE {None} \cup IF Opens(k) THEN {kept[k]} ELSE {}

-----------------------------------------------------------------------------
(* Writes.  Redis may not be reached, and nobody is told.                  *)

Lost == backend = "redis" /\ UNCHANGED <<kept, expiry>>

Issued(e) == [e EXCEPT !.issued = clock]

\* The code entry, and the redirect entry unless the link has expired: then
\* memory forgets the one in place and Redis leaves it.
Save(e) ==
  LET ttl == RedirectTtl(e.expires)
      skips == ttl = None /\ backend = "redis"
  IN  /\ kept' = [kept EXCEPT !["code"] = Issued(e),
                              !["redirect"] = IF skips THEN @
                                              ELSE IF ttl = None THEN None ELSE Issued(e)]
      /\ expiry' = [expiry EXCEPT !["code"] = clock + 2 * LinkTtl,
                                  !["redirect"] = IF skips THEN @
                                                  ELSE IF ttl = None THEN None ELSE clock + ttl]

SaveRedirect(e) ==
  LET ttl == RedirectTtl(e.expires) IN
  IF ttl = None THEN UNCHANGED <<kept, expiry>>
  ELSE /\ kept' = [kept EXCEPT !["redirect"] = Issued(e)]
       /\ expiry' = [expiry EXCEPT !["redirect"] = clock + ttl]

SaveStats(e) ==
  /\ kept' = [kept EXCEPT !["stats"] = Issued(e)]
  /\ expiry' = [expiry EXCEPT !["stats"] = clock + 2 * StatsTtl]

Delete(keys) ==
  /\ kept' = [k \in Keys |-> IF k \in keys THEN None ELSE kept[k]]
  /\ expiry' = [k \in Keys |-> IF k \in keys THEN None ELSE expiry[k]]

-----------------------------------------------------------------------------
(* Requests.  Every step is one call of the cache or one transaction.      *)

Start(w, t) ==
  /\ task[w] = Idle /\ requests < MaxRequests /\ requests' = requests + 1
  /\ task' = [task EXCEPT ![w] = [t EXCEPT !.began = clock]]

Goto(w, pc, e) == task' = [task EXCEPT ![w].pc = pc, ![w].entry = e]
Finish(w) == task' = [task EXCEPT ![w] = Idle]

Answered(e, level) == answer' = [at |-> clock, level |-> level, read |-> e.read, expires |-> e.expires]

\* What a transaction reads now.
Fresh(expires) == [read |-> clock, issued |-> clock, expires |-> expires, total |-> 0]
Total == IF row = None THEN 0 ELSE 1

Begin(w, pc, next) ==
  /\ Start(w, [Idle EXCEPT !.pc = pc, !.then = next])
  /\ answer' = None /\ UNCHANGED <<backend, clock, row, kept, expiry, excused>>

Redirect(w) == Begin(w, "redirect", "idle")
GetServiceStats(w) == Begin(w, "stats", "idle")

\* `flask stats refresh` is a process of its own: in memory it would drop and
\* keep what nobody else reads.
RefreshStats(w) == backend = "redis" /\ Begin(w, "unstat", "stats")

\* is_expired of an entry, asked by the caller of the cache.
Refuses(e) == IsExpired(e.expires)

\* L1: an expired entry is a 410 out of Redis and a miss in memory.
GetRedirect(w) ==
  /\ task[w].pc = "redirect"
  /\ \E e \in Reads("redirect") :
       \/ e = None /\ Goto(w, "code", None) /\ answer' = None
       \/ /\ e # None /\ Refuses(e) /\ answer' = None
          /\ IF backend = "redis" THEN Finish(w) ELSE Goto(w, "code", None)
       \/ e # None /\ ~Refuses(e) /\ Answered(e, "redirect") /\ Finish(w)
  /\ CleanExpired
  /\ UNCHANGED <<backend, clock, row, requests, excused>>

GetByCode(w) ==
  /\ task[w].pc = "code"
  /\ \E e \in Reads("code") :
       \/ e = None /\ Goto(w, "row", None)
       \/ e # None /\ IsExpired(e.expires) /\ Finish(w)
       \/ e # None /\ ~IsExpired(e.expires) /\ Goto(w, "warm", e)
  /\ CleanExpired
  /\ answer' = None /\ UNCHANGED <<backend, clock, row, requests, excused>>

Warm(w) ==
  /\ task[w].pc = "warm"
  /\ SaveRedirect(task[w].entry) \/ Lost
  /\ Answered(task[w].entry, "code") /\ Finish(w)
  /\ UNCHANGED <<backend, clock, row, requests, excused>>

FindByCode(w) ==
  /\ task[w].pc = "row"
  /\ IF row = None \/ IsExpired(row) THEN Finish(w) ELSE Goto(w, "fill", Fresh(row))
  /\ answer' = None /\ UNCHANGED <<backend, clock, row, kept, expiry, requests, excused>>

Fill(w) ==
  /\ task[w].pc = "fill"
  /\ Save(task[w].entry) \/ Lost
  /\ Answered(task[w].entry, "row") /\ Finish(w)
  /\ UNCHANGED <<backend, clock, row, requests, excused>>

-----------------------------------------------------------------------------
(* Changes: the commit, the link's entries, then the statistics.           *)

Create(w, life) ==
  LET expires == IF life = Never THEN Never ELSE clock + life IN
  /\ row = None /\ row' = expires
  /\ Start(w, [Idle EXCEPT !.pc = "store", !.entry = Fresh(expires)])
  /\ answer' = None /\ UNCHANGED <<backend, clock, kept, expiry, excused>>

\* Slip: a creation leaves the statistics alone.
Store_NoStats(w) ==
  /\ task[w].pc = "store"
  /\ Save(task[w].entry) \/ Lost
  /\ Finish(w)
  /\ answer' = None /\ UNCHANGED <<backend, clock, row, requests, excused>>

Store(w) ==
  /\ task[w].pc = "store"
  /\ Save(task[w].entry) \/ Lost
  /\ Goto(w, "unstat", None)
  /\ answer' = None /\ UNCHANGED <<backend, clock, row, requests, excused>>

\* By its owner, or by the sweep of expired links; what is cached is dropped
\* also when the row is gone already.
DeleteLink(w) ==
  /\ row' = None
  /\ Start(w, [Idle EXCEPT !.pc = "drop"])
  /\ answer' = None /\ UNCHANGED <<backend, clock, kept, expiry, excused>>

DropCached(w) ==
  /\ task[w].pc = "drop"
  /\ \/ Delete({"code", "redirect"}) \/ Lost
     \/ backend = "redis" /\ Delete({"redirect"})     \* delete was lost, delete_redirect was not
  /\ Goto(w, "unstat", None)
  /\ answer' = None /\ UNCHANGED <<backend, clock, row, requests, excused>>

\* Everyone between counting and keeping has been crossed.
Crossed(w, next) ==
  task' = [v \in Workers |->
             IF v = w THEN [Idle EXCEPT !.pc = next, !.began = IF next = "idle" THEN 0 ELSE task[v].began]
             ELSE [task[v] EXCEPT !.crossed = @ \/ task[v].pc = "keep"]]

DeleteStats(w) ==
  /\ task[w].pc = "unstat"
  /\ Crossed(w, task[w].then)
  /\ \/ Delete({"stats"}) /\ excused' = FALSE
     \/ Lost /\ excused' = (kept["stats"] # None)
  /\ answer' = None /\ UNCHANGED <<backend, clock, row, requests>>

\* `flask cache clear`, all of it or the statistics alone; in memory it
\* reaches its own process only.
ClearCache ==
  /\ backend = "redis" /\ requests < MaxRequests /\ requests' = requests + 1
  /\ \/ (\E keys \in {Keys, {"stats"}} : Delete(keys)) /\ excused' = FALSE
     \/ Lost /\ UNCHANGED excused
  /\ answer' = None /\ UNCHANGED <<backend, clock, row, task>>

-----------------------------------------------------------------------------
(* GetServiceStatsUseCase.                                                 *)

GetStats(w) ==
  /\ task[w].pc = "stats"
  /\ \E e \in Reads("stats") :
       \/ e = None /\ Goto(w, "count", None) /\ answer' = None
       \/ e # None /\ Answered(e, "stats") /\ Finish(w)
  /\ CleanExpired
  /\ UNCHANGED <<backend, clock, row, requests, excused>>

Count(w) ==
  /\ task[w].pc = "count"
  /\ Goto(w, "keep", [Fresh(None) EXCEPT !.total = Total])
  /\ answer' = None /\ UNCHANGED <<backend, clock, row, kept, expiry, requests, excused>>

KeepStats(w) ==
  /\ task[w].pc = "keep"
  /\ \/ SaveStats(task[w].entry) /\ excused' = task[w].crossed
     \/ Lost /\ UNCHANGED excused
  /\ Answered(task[w].entry, "count") /\ Finish(w)
  /\ UNCHANGED <<backend, clock, row, requests>>

-----------------------------------------------------------------------------
(* Around them.                                                            *)

\* Redis drops an entry: its time is over, or memory is short.
ServerDrops(k) ==
  /\ backend = "redis" /\ kept[k] # None /\ Delete({k})
  /\ excused' = (excused /\ k # "stats")
  /\ answer' = None /\ UNCHANGED <<backend, clock, row, task, requests>>

Tick ==
  /\ clock < MaxClock /\ clock' = clock + 1
  /\ \A w \in Workers : task[w] # Idle => clock < task[w].began + MaxStay   \* bound
  /\ answer' = None /\ UNCHANGED <<backend, row, kept, expiry, task, requests, excused>>

Step(w) ==
  \/ GetRedirect(w) \/ GetByCode(w) \/ Warm(w) \/ FindByCode(w) \/ Fill(w)
  \/ Store(w) \/ DropCached(w) \/ DeleteStats(w)
  \/ GetStats(w) \/ Count(w) \/ KeepStats(w)

Next ==
  \/ \E w \in Workers :
       \/ Redirect(w) \/ GetServiceStats(w) \/ RefreshStats(w)
       \/ \E life \in Lifetimes : Create(w, life)
       \/ DeleteLink(w) \/ Step(w)
  \/ ClearCache \/ (\E k \in Keys : ServerDrops(k)) \/ Tick

Spec == Init /\ [][Next]_vars

-----------------------------------------------------------------------------
(* Properties.                                                             *)

\* Nobody is redirected by an entry whose link had expired when the entry was
\* read, whichever clock let it live on: RedirectLinkUseCase asks is_expired of
\* what the cache hands out.
NothingServedAfterExpiry ==
  answer # None /\ answer.level = "redirect" =>
    answer.expires = Never \/ answer.at < answer.expires

\* A redirect entry outlives its link by no more than the floor of a second:
\* _redirect_ttl caps it in save and in save_redirect, in both caches.
EntryDiesWithItsLink ==
  kept["redirect"] # None /\ kept["redirect"].expires # Never =>
    expiry["redirect"] <= kept["redirect"].expires + IF backend = "redis" THEN 1 ELSE 0

\* How long ago the database vouched for an answer.  One lifetime for a link's
\* entry and for the statistics, two for a redirect entry, which an old code
\* entry may have warmed; the stamp of the signature is in whole seconds.
AnswersAreRecent ==
  LET life(ttl) == 2 * ttl + MaxStay + IF backend = "redis" THEN 1 ELSE 0 IN
  answer # None =>
    answer.at - answer.read <=
      CASE answer.level = "redirect" -> 2 * life(LinkTtl)
        [] answer.level = "code" -> life(LinkTtl) + MaxStay
        [] answer.level = "stats" -> life(StatsTtl)
        [] OTHER -> MaxStay

\* Every creation and deletion drops the statistics after its commit, so those
\* kept tell the number of links, while no change is on its way to drop them and
\* none crossed the request that kept them.
StatsTellTheTotal ==
  (kept["stats"] # None /\ kept["stats"].total # Total) =>
    excused \/ \E w \in Workers : task[w].pc \in {"store", "drop", "unstat"}

\* A key is counted if and only if something is stored under it: get_cache_info
\* reports the two side by side, and _clean_expired empties both.
CountsWhatItHolds == \A k \in Keys : (kept[k] # None) <=> (expiry[k] # None)

=============================================================================
