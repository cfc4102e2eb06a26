---------------------------- MODULE LinkLifecycle ----------------------------
(***************************************************************************)
(* The life of a short link: the rows of the table `urls`, the three cache *)
(* keys written for every link (L1 `redirect:`, L2 `code:` and the         *)
(* deduplication key `hash:`), and the requests that read and write them.  *)
(*                                                                         *)
(* A worker is one thread of a web or Celery process.  It runs one request *)
(* at a time, and every step of it is one statement of the database or one *)
(* call of the cache: what lies between two steps is where another worker  *)
(* may act.  A transaction that ends in one write is one step, because     *)
(* nothing of it is visible before its commit.                             *)
(*                                                                         *)
(* CacheOf maps a worker to the cache its process talks to: the same one   *)
(* for all of them under Redis, one per process with REDIS_ENABLED=false.  *)
(***************************************************************************)
EXTENDS Naturals, FiniteSets

CONSTANTS
    Workers,        \* threads that serve requests and run click tasks
    Caches,         \* the caches of the deployment
    CacheOf,        \* the cache a worker's process uses
    Codes,          \* short codes
    Urls,           \* destinations, standing for their hashes too
    Owners,         \* accounts: deduplication scopes with an owner
    Guests,         \* guest identifiers: scopes without an owner
    MaxLinks,       \* bound on the rows ever inserted
    MaxRequests,    \* bound on the requests ever started
    MaxAttempts,    \* max_collision_attempts of CreateShortLinkUseCase
    CacheMayFail,   \* TRUE: a cache call may be lost (Redis unreachable)
    ClickMayBeLost, \* TRUE: a click may not reach the queue (broker down)
    None            \* no value

Scopes == Owners \cup Guests
Ids == 1..MaxLinks

Link == [id: Ids, code: Codes, url: Urls, scope: Scopes]

ASSUME CacheOfAssumption == CacheOf \in [Workers -> Caches]
ASSUME BoundsAssumption ==
    /\ MaxLinks \in Nat
    /\ MaxRequests \in Nat
    /\ MaxAttempts \in Nat \ {0}
ASSUME FlagsAssumption == CacheMayFail \in BOOLEAN /\ ClickMayBeLost \in BOOLEAN
ASSUME NoneAssumption ==
    None \notin Link \cup Codes \cup Urls \cup Scopes

VARIABLES
    links,      \* rows of `urls`
    nextId,     \* id the next inserted row gets; ids grow with created_at
    expired,    \* ids whose expires_at has passed
    closed,     \* owners whose account row has been deleted
    l1,         \* l1[k]: redirect entries of cache k
    l2,         \* l2[k]: code entries of cache k
    dedup,      \* dedup[k]: hash entries of cache k
    clicks,     \* <<k, c>>: a click on c to be counted by a worker of cache k
    task,       \* task[w]: what worker w is doing
    started,    \* requests started so far
    audits,     \* audits[i]: "link deleted" records written for link i
    dropped,    \* dropped[k]: links whose keys a deletion removed from cache k
    overlapped  \* overlapped[k]: those a filling request held at that moment

dbVars == <<links, nextId, expired, closed>>
cacheVars == <<l1, l2, dedup>>
ghostVars == <<audits, dropped, overlapped>>
vars == <<dbVars, cacheVars, clicks, task, started, ghostVars>>

InsertingPcs == {"hash", "confirm", "discard", "dedup", "pick", "insert"}
CreatePcs == InsertingPcs \cup {"keep", "store", "reply"}
RedirectPcs == {"l2", "warm", "db", "fill", "answer"}
DeletePcs == {"remove", "drop", "dropCode", "ownerDelete"}
Pcs == {"idle", "unlist"} \cup CreatePcs \cup RedirectPcs \cup DeletePcs

Task == [pc: Pcs,
         code: Codes \cup {None},      \* the code asked for
         url: Urls \cup {None},        \* the destination to shorten
         scope: Scopes \cup {None},    \* the scope to shorten it in
         link: Link \cup {None},       \* the entity in hand
         chosen: Codes \cup {None},    \* the code to insert under
         victims: SUBSET Link,         \* deleted links still cached
         tries: 0..(MaxAttempts - 1),  \* lost races for a code
         before: SUBSET Ids]           \* ids issued by the dedup read

Idle == [pc |-> "idle", code |-> None, url |-> None, scope |-> None,
         link |-> None, chosen |-> None, victims |-> {}, tries |-> 0, before |-> {}]

-----------------------------------------------------------------------------
(* Repository and cache reads.                                             *)

Live(l) == l.id \notin expired
SameKey(l, url, scope) == l.url = url /\ l.scope = scope

FindByCode(c) == {l \in links : l.code = c}

\* Slip: the oldest link of the scope is taken first and its expiry looked at
\* afterwards, so a younger live one is not found.
LiveInScope_OldestOnly(url, scope) ==
    LET all == {l \in links : SameKey(l, url, scope)}
    IN  {l \in all : Live(l) /\ \A m \in all : l.id <= m.id}

LiveInScope(url, scope) == {l \in links : SameKey(l, url, scope) /\ Live(l)}

\* The oldest link of a set: ordered by created_at, then id.
Oldest(found) == {l \in found : \A m \in found : l.id <= m.id}

\* What a lookup among the entries of a cache may answer: the entry, or
\* None when there is none or the cache cannot be reached.
Lookup(entries) ==
    IF entries = {} \/ CacheMayFail THEN entries \cup {None} ELSE entries

(* Cache writes.  Each may be lost when the cache cannot be reached, and   *)
(* none of them reports it to the request.                                 *)

PutCode(entries, l) == {x \in entries : x.code # l.code} \cup {l}
DropCode(entries, c) == {x \in entries : x.code # c}

\* Cache.save: the hash, code and redirect keys of a link.  The redirect
\* entry of an expired link is not written; the in-memory cache removes the
\* one in place, Redis leaves it.
CacheSave(k, l) ==
    \/ /\ l2' = [l2 EXCEPT ![k] = PutCode(@, l)]
       /\ dedup' = [dedup EXCEPT
            ![k] = {x \in @ : ~SameKey(x, l.url, l.scope)} \cup {l}]
       /\ \/ Live(l) /\ l1' = [l1 EXCEPT ![k] = PutCode(@, l)]
          \/ ~Live(l) /\ l1' = [l1 EXCEPT ![k] = DropCode(@, l.code)]
          \/ ~Live(l) /\ l1' = l1
    \/ CacheMayFail /\ UNCHANGED cacheVars

\* RedirectCache.save_redirect: L1 alone, and only for an unexpired link.
CacheSaveRedirect(k, l) ==
    /\ \/ Live(l) /\ l1' = [l1 EXCEPT ![k] = PutCode(@, l)]
       \/ (~Live(l) \/ CacheMayFail) /\ l1' = l1
    /\ UNCHANGED <<l2, dedup>>

\* Slip: only the keys a code can name are removed, the hash key stays.
CacheDelete_CodeOnly(k, l) ==
    /\ l1' = [l1 EXCEPT ![k] = DropCode(@, l.code)]
    /\ l2' = [l2 EXCEPT ![k] = DropCode(@, l.code)]
    /\ UNCHANGED dedup

\* Cache.delete: every key of a link, followed by delete_redirect.
CacheDelete(k, l) ==
    /\ l1' = [l1 EXCEPT ![k] = DropCode(@, l.code)]
    /\ l2' = [l2 EXCEPT ![k] = DropCode(@, l.code)]
    /\ dedup' = [dedup EXCEPT ![k] = {x \in @ : ~SameKey(x, l.url, l.scope)}]

\* Slip: the redirect entry alone is removed.
CacheDeleteByCode_RedirectOnly(k, c) ==
    /\ l1' = [l1 EXCEPT ![k] = DropCode(@, c)]
    /\ UNCHANGED <<l2, dedup>>

\* Cache.delete_by_code: the two keys a code can name.
CacheDeleteByCode(k, c) ==
    \/ /\ l1' = [l1 EXCEPT ![k] = DropCode(@, c)]
       /\ l2' = [l2 EXCEPT ![k] = DropCode(@, c)]
       /\ UNCHANGED dedup
    \/ CacheMayFail /\ UNCHANGED cacheVars

-----------------------------------------------------------------------------
(* How a worker moves.                                                     *)

At(w, pc) == task[w].pc = pc
Become(w, t) == task' = [task EXCEPT ![w] = t]
Goto(w, pc) == Become(w, [task[w] EXCEPT !.pc = pc])
GotoWith(w, pc, l) == Become(w, [task[w] EXCEPT !.pc = pc, !.link = l])
Finish(w) == Become(w, Idle)

Start(w, t) ==
    /\ At(w, "idle")
    /\ started < MaxRequests
    /\ started' = started + 1
    /\ Become(w, t)

-----------------------------------------------------------------------------
(* CreateShortLinkUseCase.  A custom code is t.code; None asks for a       *)
(* generated one.                                                          *)

StartCreate(w) ==
    /\ nextId + Cardinality({v \in Workers : task[v].pc \in InsertingPcs})
          <= MaxLinks                                   \* bound
    /\ \E url \in Urls, scope \in Scopes \ closed, code \in Codes \cup {None} :
          Start(w, [Idle EXCEPT !.pc = "hash", !.url = url, !.scope = scope,
                                !.code = code])
    /\ UNCHANGED <<dbVars, cacheVars, clicks, ghostVars>>

\* cache.get_by_hash, outside the transaction.
GetByHash(w) ==
    LET t == task[w]
    IN  /\ At(w, "hash")
        /\ \E l \in Lookup({x \in dedup[CacheOf[w]] :
                                SameKey(x, t.url, t.scope)}) :
              GotoWith(w, IF l = None THEN "dedup" ELSE "confirm", l)
        /\ UNCHANGED <<dbVars, cacheVars, clicks, started, ghostVars>>

\* Slip: a row under the claimed code is taken to be the claimed link.
Confirming_ByCode(t) == {l \in FindByCode(t.link.code) : Live(l)}

\* Rows that confirm what the cache claims: the code still resolves, to this
\* destination, in this scope, and has not expired.
Confirming(t) ==
    {l \in FindByCode(t.link.code) : SameKey(l, t.url, t.scope) /\ Live(l)}

Confirm(w) ==
    /\ At(w, "confirm")
    /\ \/ \E l \in Confirming(task[w]) : GotoWith(w, "reply", l)
       \/ Confirming(task[w]) = {} /\ Goto(w, "discard")
    /\ UNCHANGED <<dbVars, cacheVars, clicks, started, ghostVars>>

\* cache.delete of a claim the database did not confirm.
Discard(w) ==
    /\ At(w, "discard")
    /\ \/ CacheDelete(CacheOf[w], task[w].link)
       \/ CacheMayFail /\ UNCHANGED cacheVars
    /\ GotoWith(w, "dedup", None)
    /\ UNCHANGED <<dbVars, clicks, started, ghostVars>>

\* uow.links.find_live_by_hash.
FindLive(w) ==
    LET t == task[w]
        found == LiveInScope(t.url, t.scope)
    IN  /\ At(w, "dedup")
        /\ \/ \E l \in Oldest(found) : GotoWith(w, "keep", l)
           \/ /\ found = {}
              /\ Become(w, [t EXCEPT !.pc = "pick", !.before = 1..(nextId - 1)])
        /\ UNCHANGED <<dbVars, cacheVars, clicks, started, ghostVars>>

\* cache.save(existing_link).
KeepExisting(w) ==
    /\ At(w, "keep")
    /\ CacheSave(CacheOf[w], task[w].link)
    /\ Goto(w, "reply")
    /\ UNCHANGED <<dbVars, clicks, started, ghostVars>>

\* guest_allowance may refuse a guest; then a custom code is checked, or a
\* free one generated.  The generator may exhaust its attempts.
PickCode(w) ==
    LET t == task[w]
        free == {c \in Codes : FindByCode(c) = {}}
    IN  /\ At(w, "pick")
        /\ \/ \E c \in (IF t.code = None THEN free ELSE free \cap {t.code}) :
                Become(w, [t EXCEPT !.pc = "insert", !.chosen = c])
           \/ (t.scope \in Guests \/ t.code = None \/ t.code \notin free)
              /\ Finish(w)
        /\ UNCHANGED <<dbVars, cacheVars, clicks, started, ghostVars>>

\* uow.links.save and uow.commit.  A code taken since the check is a
\* LinkConflictError, retried from the top; an owner deleted since then is a
\* foreign-key violation, which is not.
Insert(w) ==
    LET t == task[w]
        new == [id |-> nextId, code |-> t.chosen, url |-> t.url,
                scope |-> t.scope]
    IN  /\ At(w, "insert")
        /\ nextId <= MaxLinks                             \* bound
        /\ \/ /\ FindByCode(new.code) = {} /\ new.scope \notin closed
              /\ links' = links \cup {new}
              /\ nextId' = nextId + 1
              /\ GotoWith(w, "store", new)
              /\ UNCHANGED <<expired, closed>>
           \/ /\ FindByCode(new.code) # {}
              /\ IF t.tries + 1 < MaxAttempts
                 THEN Become(w, [t EXCEPT !.pc = "hash", !.chosen = None,
                                          !.before = {}, !.tries = @ + 1])
                 ELSE Finish(w)
              /\ UNCHANGED dbVars
           \/ /\ FindByCode(new.code) = {} /\ new.scope \in closed
              /\ Finish(w)
              /\ UNCHANGED dbVars
        /\ UNCHANGED <<cacheVars, clicks, started, ghostVars>>

\* cache.save(saved_link), after the commit and outside the transaction.
StoreNew(w) ==
    /\ At(w, "store")
    /\ CacheSave(CacheOf[w], task[w].link)
    /\ Goto(w, "reply")
    /\ UNCHANGED <<dbVars, clicks, started, ghostVars>>

\* The response.
Reply(w) ==
    /\ At(w, "reply")
    /\ Finish(w)
    /\ UNCHANGED <<dbVars, cacheVars, clicks, started, ghostVars>>

-----------------------------------------------------------------------------
(* RedirectLinkUseCase.                                                    *)

\* L1.  An expired entry is a 410 from Redis and a miss in memory.
StartRedirect(w) ==
    /\ \E c \in Codes :
         \E l \in Lookup({x \in l1[CacheOf[w]] : x.code = c}) :
            LET t == [Idle EXCEPT !.code = c]
            IN  \/ l = None /\ Start(w, [t EXCEPT !.pc = "l2"])
                \/ /\ l # None /\ Live(l)
                   /\ Start(w, [t EXCEPT !.pc = "answer", !.link = l])
                \/ /\ l # None /\ ~Live(l)
                   /\ Start(w, Idle) \/ Start(w, [t EXCEPT !.pc = "l2"])
    /\ UNCHANGED <<dbVars, cacheVars, clicks, ghostVars>>

\* L2: an expired entry answers 410.
ReadL2(w) ==
    /\ At(w, "l2")
    /\ \E l \in Lookup({x \in l2[CacheOf[w]] : x.code = task[w].code}) :
          \/ l = None /\ Goto(w, "db")
          \/ l # None /\ Live(l) /\ GotoWith(w, "warm", l)
          \/ l # None /\ ~Live(l) /\ Finish(w)
    /\ UNCHANGED <<dbVars, cacheVars, clicks, started, ghostVars>>

\* redirect_cache.save_redirect after an L2 hit.
WarmL1(w) ==
    /\ At(w, "warm")
    /\ CacheSaveRedirect(CacheOf[w], task[w].link)
    /\ Goto(w, "answer")
    /\ UNCHANGED <<dbVars, clicks, started, ghostVars>>

\* The repository: 404, 410 or the row.
ReadDb(w) ==
    /\ At(w, "db")
    /\ \/ FindByCode(task[w].code) = {} /\ Finish(w)
       \/ \E l \in FindByCode(task[w].code) :
            \/ Live(l) /\ GotoWith(w, "fill", l)
            \/ ~Live(l) /\ Finish(w)
    /\ UNCHANGED <<dbVars, cacheVars, clicks, started, ghostVars>>

\* link_cache.save after a repository hit.
FillCaches(w) ==
    /\ At(w, "fill")
    /\ CacheSave(CacheOf[w], task[w].link)
    /\ Goto(w, "answer")
    /\ UNCHANGED <<dbVars, clicks, started, ghostVars>>

\* _answer: hand the click to the queue and redirect.
Answer(w) ==
    /\ At(w, "answer")
    /\ \/ clicks' = clicks \cup {<<CacheOf[w], task[w].code>>}
       \/ ClickMayBeLost /\ clicks' = clicks
    /\ Finish(w)
    /\ UNCHANGED <<dbVars, cacheVars, started, ghostVars>>

-----------------------------------------------------------------------------
(* Deletions: DeleteLinkUseCase, DeleteUserUseCase and                     *)
(* CleanExpiredLinksUseCase.  Each commits first and then invalidates.     *)

\* uow.links.find_by_code.  An unknown code is dropped from the cache; a
\* caller who may not delete the link is refused.
StartDelete(w) ==
    /\ \E c \in Codes :
         LET t == [Idle EXCEPT !.code = c]
         IN  \/ FindByCode(c) = {} /\ Start(w, [t EXCEPT !.pc = "dropCode"])
             \/ \E l \in FindByCode(c) :
                   \/ Start(w, [t EXCEPT !.pc = "remove", !.link = l])
                   \/ Start(w, Idle)
    /\ UNCHANGED <<dbVars, cacheVars, clicks, ghostVars>>

\* _drop_cached(short_code, None).
DropUnknown(w) ==
    /\ At(w, "dropCode")
    /\ CacheDeleteByCode(CacheOf[w], task[w].code)
    /\ Finish(w)
    /\ UNCHANGED <<dbVars, clicks, started, ghostVars>>

\* Slip: the row is deleted by its code.
RemoveRow_ByCode(w) ==
    LET l == task[w].link
        found == FindByCode(task[w].code)
    IN  /\ At(w, "remove")
        /\ links' = links \ found
        /\ \/ found # {} /\ Become(w, [task[w] EXCEPT !.pc = "drop",
                                                     !.victims = {l}])
           \/ found = {} /\ Finish(w)
        /\ UNCHANGED <<nextId, expired, closed, cacheVars, clicks, started,
                       ghostVars>>

\* Slip: success is judged by the earlier read, not by the row count.
RemoveRow_ByRead(w) ==
    LET l == task[w].link
    IN  /\ At(w, "remove")
        /\ links' = links \ {l}
        /\ Become(w, [task[w] EXCEPT !.pc = "drop", !.victims = {l}])
        /\ UNCHANGED <<nextId, expired, closed, cacheVars, clicks, started,
                       ghostVars>>

\* uow.links.delete by id, answered from the number of rows removed.
RemoveRow(w) ==
    LET l == task[w].link
    IN  /\ At(w, "remove")
        /\ \/ /\ l \in links
              /\ links' = links \ {l}
              /\ Become(w, [task[w] EXCEPT !.pc = "drop", !.victims = {l}])
           \/ /\ l \notin links
              /\ links' = links
              /\ Finish(w)
        /\ UNCHANGED <<nextId, expired, closed, cacheVars, clicks, started,
                       ghostVars>>

\* delete_by_owner: the rows it selects are the ones it will invalidate.
StartDeleteOwner(w) ==
    /\ \E o \in Owners \ closed :
         Start(w, [Idle EXCEPT !.pc = "ownerDelete", !.scope = o,
                               !.victims = {l \in links : l.scope = o}])
    /\ UNCHANGED <<dbVars, cacheVars, clicks, ghostVars>>

\* Slip: only the selected links go, nothing cascades.
DeleteOwner_NoCascade(w) ==
    LET o == task[w].scope
    IN  /\ At(w, "ownerDelete")
        /\ links' = links \ task[w].victims
        /\ closed' = closed \cup {o}
        /\ Goto(w, "drop")
        /\ UNCHANGED <<nextId, expired, cacheVars, clicks, started, ghostVars>>

\* The account row goes, and ON DELETE CASCADE takes every link that still
\* refers to it, selected or not.  A second deletion of the same account
\* finds no row and rolls back.
DeleteOwner(w) ==
    LET o == task[w].scope
    IN  /\ At(w, "ownerDelete")
        /\ \/ /\ o \notin closed
              /\ links' = {l \in links : l.scope # o}
              /\ closed' = closed \cup {o}
              /\ Goto(w, "drop")
           \/ o \in closed /\ Finish(w) /\ UNCHANGED <<links, closed>>
        /\ UNCHANGED <<nextId, expired, cacheVars, clicks, started, ghostVars>>

\* delete_expired and its commit.
StartSweep(w) ==
    LET due == {l \in links : ~Live(l)}
    IN  /\ due # {}
        /\ Start(w, [Idle EXCEPT !.pc = "drop", !.victims = due])
        /\ links' = links \ due
        /\ UNCHANGED <<nextId, expired, closed, cacheVars, clicks, ghostVars>>

\* Requests about to write link l into cache k.
FillingPcs == {"keep", "store", "warm", "fill"}
Filling(k, l) ==
    {v \in Workers : CacheOf[v] = k /\ task[v].pc \in FillingPcs
                                    /\ task[v].link = l}

\* _drop_cached for one deleted link.
DropCached(k, l) ==
    \/ /\ CacheDelete(k, l)
       /\ dropped' = [dropped EXCEPT ![k] = @ \cup {l}]
       /\ overlapped' = IF Filling(k, l) = {} THEN overlapped
                        ELSE [overlapped EXCEPT ![k] = @ \cup {l}]
    \/ /\ CacheMayFail
       /\ l1' \in {l1, [l1 EXCEPT ![k] = DropCode(@, l.code)]}
       /\ UNCHANGED <<l2, dedup, dropped, overlapped>>

\* Only DeleteLink and DeleteUser write an audit record per link; the sweep
\* writes one for the whole run.
AuditDeletion(t, l) ==
    \/ /\ t.code # None \/ t.scope # None
       /\ audits' = [audits EXCEPT ![l.id] = @ + 1]
    \/ t.code = None /\ t.scope = None /\ audits' = audits

DropOne(w) ==
    LET t == task[w]
    IN  /\ At(w, "drop")
        /\ \E l \in t.victims :
             /\ DropCached(CacheOf[w], l)
             /\ AuditDeletion(t, l)
             /\ \/ t.victims = {l} /\ Finish(w)
                \/ /\ t.victims # {l}
                   /\ Become(w, [t EXCEPT !.victims = t.victims \ {l}])
        /\ UNCHANGED <<dbVars, clicks, started>>

DropNone(w) ==
    /\ At(w, "drop")
    /\ task[w].victims = {}
    /\ Finish(w)
    /\ UNCHANGED <<dbVars, cacheVars, clicks, started, ghostVars>>

-----------------------------------------------------------------------------
(* UpdateLinkStatsUseCase: the click task.                                 *)

\* increment_clicks.  A code with a row is counted and nothing is cached.
StartClick(w) ==
    /\ At(w, "idle")
    /\ \E c \in Codes :
         /\ <<CacheOf[w], c>> \in clicks
         /\ clicks' = clicks \ {<<CacheOf[w], c>>}
         /\ \/ FindByCode(c) # {} /\ task' = task
            \/ /\ FindByCode(c) = {}
               /\ Become(w, [Idle EXCEPT !.pc = "unlist", !.code = c])
    /\ UNCHANGED <<dbVars, cacheVars, started, ghostVars>>

\* LinkNotFoundError: delete_redirect and delete_by_code.
Unlist(w) ==
    /\ At(w, "unlist")
    /\ CacheDeleteByCode(CacheOf[w], task[w].code)
    /\ Finish(w)
    /\ UNCHANGED <<dbVars, clicks, started, ghostVars>>

-----------------------------------------------------------------------------
(* The environment: time passes, entries fall out of a cache.              *)

Expire ==
    /\ \E l \in links : Live(l) /\ expired' = expired \cup {l.id}
    /\ UNCHANGED <<links, nextId, closed, cacheVars, clicks, task, started,
                   ghostVars>>

Evict ==
    /\ \E k \in Caches :
         \/ \E x \in l1[k] : /\ l1' = [l1 EXCEPT ![k] = @ \ {x}]
                             /\ UNCHANGED <<l2, dedup>>
         \/ \E x \in l2[k] : /\ l2' = [l2 EXCEPT ![k] = @ \ {x}]
                             /\ UNCHANGED <<l1, dedup>>
         \/ \E x \in dedup[k] : /\ dedup' = [dedup EXCEPT ![k] = @ \ {x}]
                                /\ UNCHANGED <<l1, l2>>
    /\ UNCHANGED <<dbVars, clicks, task, started, ghostVars>>

-----------------------------------------------------------------------------

Init ==
    /\ links = {} /\ nextId = 1 /\ expired = {} /\ closed = {}
    /\ l1 = [k \in Caches |-> {}]
    /\ l2 = [k \in Caches |-> {}]
    /\ dedup = [k \in Caches |-> {}]
    /\ clicks = {}
    /\ task = [w \in Workers |-> Idle]
    /\ started = 0
    /\ audits = [i \in Ids |-> 0]
    /\ dropped = [k \in Caches |-> {}]
    /\ overlapped = [k \in Caches |-> {}]

Begin(w) ==
    \/ StartCreate(w) \/ StartRedirect(w) \/ StartDelete(w)
    \/ StartDeleteOwner(w) \/ StartSweep(w)

Step(w) ==
    \/ GetByHash(w) \/ Confirm(w) \/ Discard(w) \/ FindLive(w)
    \/ KeepExisting(w) \/ PickCode(w) \/ Insert(w) \/ StoreNew(w) \/ Reply(w)
    \/ ReadL2(w) \/ WarmL1(w) \/ ReadDb(w) \/ FillCaches(w) \/ Answer(w)
    \/ DropUnknown(w) \/ RemoveRow(w) \/ DeleteOwner(w) \/ DropOne(w)
    \/ DropNone(w) \/ Unlist(w)

Next ==
    \/ \E w \in Workers : Begin(w) \/ Step(w) \/ StartClick(w)
    \/ Expire
    \/ Evict

Spec == Init /\ [][Next]_vars

\* A request that has started runs to its end, and a queued click is taken up
\* by a worker that is free: threads are scheduled, and Celery consumes.
Fairness == \A w \in Workers : WF_vars(Step(w)) /\ WF_vars(StartClick(w))
FairSpec == Spec /\ Fairness

-----------------------------------------------------------------------------
(* Properties.                                                             *)

\* Every variable keeps its type.
TypeOK ==
    /\ links \in SUBSET Link
    /\ nextId \in 1..(MaxLinks + 1)
    /\ expired \in SUBSET Ids
    /\ closed \in SUBSET Owners
    /\ l1 \in [Caches -> SUBSET Link]
    /\ l2 \in [Caches -> SUBSET Link]
    /\ dedup \in [Caches -> SUBSET Link]
    /\ clicks \in SUBSET (Caches \X Codes)
    /\ task \in [Workers -> Task]
    /\ started \in 0..MaxRequests
    /\ audits \in [Ids -> Nat]
    /\ dropped \in [Caches -> SUBSET Link]
    /\ overlapped \in [Caches -> SUBSET Link]

\* A code names at most one link, whatever creations raced for it: the
\* uniqueness check before the insert is only a hint, the constraint decides.
UniqueCodes == \A l, m \in links : l.code = m.code => l = m

\* No link outlives its owner's account: a creation that commits while the
\* account is being deleted is taken by the cascade, and one that comes later
\* is refused by the foreign key.
NoOrphans == \A l \in links : l.scope \notin closed

\* The link a creation answers with, or is about to, has the destination and
\* the scope that were asked for - also when the cache claimed a code that
\* has been deleted and issued again to somebody else since (_confirm).
HandedOutMatchesRequest ==
    \A w \in Workers :
        task[w].pc \in {"keep", "store", "reply"} =>
            SameKey(task[w].link, task[w].url, task[w].scope)

\* Two live links with one destination in one scope exist only if their
\* creations overlapped: when a creation gets past the deduplication read,
\* each live link that already has its key was issued after that read.
DuplicatesAreConcurrent ==
    \A w \in Workers : \A l \in links :
        /\ task[w].pc \in {"pick", "insert"}
        /\ SameKey(l, task[w].url, task[w].scope)
        /\ Live(l)
        => l.id \notin task[w].before

\* After a deletion has removed the keys of a link from a cache, and no
\* request of that cache held the link at that moment, nothing brings it
\* back: no entry, no row, and no request that would write it again.
DroppedStaysDropped ==
    \A k \in Caches : \A l \in dropped[k] \ overlapped[k] :
        /\ l \notin l1[k] \cup l2[k] \cup dedup[k] \cup links
        /\ Filling(k, l) = {}

\* A deletion request removes the very row it read and judged: no other
\* link, even one that has received the code in between.
DeletesWhatItJudged ==
    [][\A w \in Workers :
         At(w, "remove") /\ task'[w] # task[w] =>
            links \ links' \subseteq {task[w].link}]_vars

\* Each deleted link has at most one "link deleted" record: of two deletion
\* requests for one link only the one that removed the row writes it.
OneAuditPerDeletion == \A i \in Ids : audits[i] <= 1

\* A deletion is final in the cache it invalidates: no entry for the link is
\* there afterwards, so no redirect started later is answered with it.
DropIsFinal ==
    \A k \in Caches : (l1[k] \cup l2[k]) \cap dropped[k] = {}

\* A cached link whose row is gone and whose code nobody has taken over does
\* not outlive the next counted click on that code.
StaleEntriesHeal ==
    \A k \in Caches, c \in Codes :
        (<<k, c>> \in clicks /\ FindByCode(c) = {})
            ~> (FindByCode(c) # {} \/ \A l \in l1[k] \cup l2[k] : l.code # c)

\* Every request comes to an end, retries after lost races included.
RequestsEnd == \A w \in Workers : ~At(w, "idle") ~> At(w, "idle")

=============================================================================
