------------------------------ MODULE RateLimit ------------------------------
(***************************************************************************)
(* The rate limiter and its two users: the middleware, which counts every  *)
(* request of a client, and the login, which counts the wrong passwords of *)
(* an address.  Threads share one limiter.  The Redis limiter reads the    *)
(* clock, then sends the sliding-window script; when Redis does not answer *)
(* it lets requests through and retries once per interval.  The in-memory  *)
(* limiter does everything under its lock.                                 *)
(***************************************************************************)
EXTENDS Naturals, FiniteSets, FiniteSetsExt, Folds

CONSTANTS Threads,
          Limit, Period,   \* the limit of both counters
          MaxClock,        \* bound: ticks of the clock
          MaxOutages       \* bound: changes of what the server does

Keys == {"client", "address"}    \* client:endpoint and login-failure:digest
Times == 0 .. MaxClock

VARIABLES
  clock,     \* time.time(), in ticks
  backend,   \* "redis" or "memory"
  store,     \* per key: how many entries carry each time stamp
  since,     \* _unreachable_since: "never", or whether the interval is over
  refused,   \* _refused
  server,    \* what Redis does: "up", "down", or "refuses" the command
  outages,
  task,      \* per thread: the request it serves
  log,       \* history: per key, the requests the window admitted, by time
  latest,    \* history: per key, the latest time a call has trimmed it with
  overtaken, \* history: keys where a call ran behind one with a later time
  wrong,     \* history: wrong passwords looked at before the first outage
  tries      \* history: attempts claimed in the current outage interval

vars == <<clock, backend, store, since, refused, server, outages, task,
          log, latest, overtaken, wrong, tries>>
ghosts == <<log, latest, overtaken, wrong, tries>>
limiter == <<store, since, refused>>
world == <<clock, backend, server, outages>>

\* op: the call being made; now: the time it read; counted: the peek was
\* answered from the store.
Idle == [pc |-> "idle", op |-> "check", now |-> 0, counted |-> FALSE]

NoEntries == [t \in Times |-> 0]

Init ==
  /\ clock = 0 /\ backend \in {"redis", "memory"}
  /\ store = [k \in Keys |-> NoEntries]
  /\ since = "never" /\ refused = FALSE /\ outages = 0
  /\ server \in IF backend = "redis" THEN {"up", "down", "refuses"} ELSE {"up"}
  /\ task = [t \in Threads |-> Idle]
  /\ log = [k \in Keys |-> NoEntries] /\ overtaken = {}
  /\ latest = [k \in Keys |-> 0]
  /\ wrong = NoEntries /\ tries = 0

KeyOf(op) == IF op = "check" THEN "client" ELSE "address"

-----------------------------------------------------------------------------
(* The sliding window: the Lua script and MemoryRateLimiter.is_allowed *)

Total(entries, from) ==
  MapThenFoldSet(+, 0, LAMBDA t : entries[t], LAMBDA S : CHOOSE t \in S : TRUE,
                 {t \in Times : t + Period > from})

\* The entries later than the start of the window that ends now.
Kept(k, now) == [t \in Times |-> IF t + Period > now THEN store[k][t] ELSE 0]

\* Slip: the window admits one request too many.
Admits_Late(k, now) == Total(Kept(k, now), 0) <= Limit

Admits(k, now) == Total(Kept(k, now), 0) < Limit

NoteOrder(k, now) ==
  /\ latest' = [latest EXCEPT ![k] = Max({@, now})]
  /\ overtaken' = IF latest[k] > now THEN overtaken \cup {k} ELSE overtaken

Evaluate(k, now) ==
  /\ store' = [store EXCEPT ![k] =
                 IF Admits(k, now) THEN [Kept(k, now) EXCEPT ![now] = @ + 1]
                                   ELSE Kept(k, now)]
  /\ log' = IF Admits(k, now) THEN [log EXCEPT ![k][now] = @ + 1] ELSE log
  /\ NoteOrder(k, now)

Remaining(k, now) == IF Total(Kept(k, now), 0) < Limit
                     THEN Limit - Total(Kept(k, now), 0) ELSE 0

-----------------------------------------------------------------------------
(* What a request does with the answer *)

Become(t, r) == task' = [task EXCEPT ![t] = r]

\* Slip: the login looks at the password whatever is left of the budget.
Peeked_Blind(t, left, counted) ==
  Become(t, [Idle EXCEPT !.pc = "verify", !.op = "peek", !.counted = counted])

\* LoginUseCase.execute: a spent budget ends the attempt before the
\* password is looked at.
Peeked(t, left, counted) ==
  Become(t, IF left = 0 THEN Idle
            ELSE [Idle EXCEPT !.pc = "verify", !.op = "peek", !.counted = counted])

\* authenticate: a right password spends nothing.
Verify(t) ==
  /\ task[t].pc = "verify"
  /\ \/ Become(t, Idle) /\ UNCHANGED wrong
     \/ /\ Become(t, [Idle EXCEPT !.pc = "claim", !.op = "spend"])
        /\ wrong' = IF task[t].counted /\ outages = 0
                    THEN [wrong EXCEPT ![clock] = @ + 1] ELSE wrong
  /\ UNCHANGED <<limiter, world, log, latest, overtaken, tries>>

\* The middleware's check: a request that is refused is answered 429.
Request(t) ==
  /\ task[t].pc = "idle"
  /\ Become(t, [Idle EXCEPT !.pc = "claim"])
  /\ UNCHANGED <<limiter, world, ghosts>>

\* A login of the address; the middleware let it pass, as it came from a
\* client of its own.
Login(t) ==
  /\ task[t].pc = "idle"
  /\ Become(t, [Idle EXCEPT !.pc = "claim", !.op = "peek"])
  /\ UNCHANGED <<limiter, world, ghosts>>

\* A call the limiter cannot count: it is allowed, with the whole quota.
Uncounted(t) ==
  IF task[t].op = "peek" THEN Peeked(t, Limit, FALSE) ELSE Become(t, Idle)

-----------------------------------------------------------------------------
(* RedisRateLimiter *)

Claimed == IF since = "over" THEN "running" ELSE since

\* _claim_attempt, then the clock is read for the window.
Claim(t) ==
  /\ backend = "redis" /\ task[t].pc = "claim"
  /\ \/ /\ since = "running"
        /\ Uncounted(t) /\ UNCHANGED <<since, tries>>
     \/ /\ since # "running"
        /\ since' = Claimed
        /\ tries' = IF since = "over" /\ tries < 2 THEN tries + 1 ELSE tries
        /\ Become(t, [task[t] EXCEPT !.pc = "call", !.now = clock])
  /\ UNCHANGED <<store, refused, world, log, latest, overtaken, wrong>>

\* The script, or the two commands of get_remaining; what is added between
\* these two is added after the peek as well as before it.
CallRedis(t) ==
  /\ task[t].pc = "call"
  /\ LET k == KeyOf(task[t].op) now == task[t].now IN
     \/ /\ server = "up" /\ task[t].op = "peek"
        /\ store' = [store EXCEPT ![k] = Kept(k, now)]
        /\ Peeked(t, Remaining(k, now), TRUE)
        /\ NoteOrder(k, now) /\ UNCHANGED log
     \/ /\ server = "up" /\ task[t].op # "peek"
        /\ Evaluate(k, now)
        /\ Become(t, [task[t] EXCEPT !.pc = "answer"])
     \/ /\ server = "down"
        /\ Become(t, [task[t] EXCEPT !.pc = "outage"])
        /\ UNCHANGED <<store, log, latest, overtaken>>
     \/ /\ server = "refuses"
        /\ Become(t, [task[t] EXCEPT !.pc = "refusal"])
        /\ UNCHANGED <<store, log, latest, overtaken>>
  /\ UNCHANGED <<since, refused, world, wrong, tries>>

NoteSuccess == since' = "never" /\ refused' = FALSE

\* The outcome is noted under the lock in a step of its own: by then the
\* server, and what other threads noted, may have changed.
Note(t) ==
  /\ \/ /\ task[t].pc = "answer"
        /\ NoteSuccess
        /\ Become(t, Idle)
     \/ /\ task[t].pc = "refusal"
        /\ refused' = TRUE /\ Uncounted(t) /\ UNCHANGED since
     \/ /\ task[t].pc = "outage"
        /\ since' = "running" /\ Uncounted(t) /\ UNCHANGED refused
  /\ UNCHANGED <<store, world, ghosts>>

-----------------------------------------------------------------------------
(* MemoryRateLimiter: every call is one critical section, clock included *)

CallMemory(t) ==
  /\ backend = "memory" /\ task[t].pc = "claim"
  /\ LET k == KeyOf(task[t].op) IN
     \/ /\ task[t].op = "peek"
        /\ Peeked(t, Remaining(k, clock), TRUE)
        /\ UNCHANGED <<store, log, latest, overtaken>>
     \/ /\ task[t].op # "peek"
        /\ Evaluate(k, clock) /\ Become(t, Idle)
  /\ UNCHANGED <<since, refused, world, wrong, tries>>

-----------------------------------------------------------------------------
(* The clock and the server *)

Tick ==
  /\ clock < MaxClock /\ clock' = clock + 1
  /\ UNCHANGED <<backend, server, outages, limiter, task, ghosts>>

IntervalPasses ==
  /\ since = "running" /\ since' = "over" /\ tries' = 0
  /\ UNCHANGED <<store, refused, world, task, log, latest, overtaken, wrong>>

ServerChanges ==
  /\ backend = "redis" /\ outages < MaxOutages /\ outages' = outages + 1
  /\ server' \in {"up", "down", "refuses"} \ {server}
  /\ UNCHANGED <<clock, backend, limiter, task, ghosts>>

Step(t) == Verify(t) \/ Claim(t) \/ CallRedis(t) \/ Note(t) \/ CallMemory(t)

Next ==
  \/ \E t \in Threads : Request(t) \/ Login(t) \/ Step(t)
  \/ Tick \/ IntervalPasses \/ ServerChanges

Spec == Init /\ [][Next]_vars

-----------------------------------------------------------------------------
(* Properties *)

\* Type invariant.
TypeOK ==
  /\ clock \in Times /\ backend \in {"redis", "memory"}
  /\ since \in {"never", "running", "over"} /\ refused \in BOOLEAN
  /\ server \in {"up", "down", "refuses"} /\ outages \in 0 .. MaxOutages
  /\ latest \in [Keys -> Times] /\ overtaken \subseteq Keys /\ tries \in 0 .. 2
  /\ \A k \in Keys : \A t \in Times : store[k][t] \in Nat /\ store[k][t] <= log[k][t]

\* No window of one period admits more requests than the limit, wherever
\* the window is laid: the sliding window has no burst at its seams.  The
\* Redis limiter reads the clock before the script runs, so a request that
\* is overtaken by a later one may be counted against a window already
\* trimmed; that is the only exception.
WithinTheWindow ==
  \A k \in Keys \ overtaken : \A end \in Times :
    MapThenFoldSet(+, 0, LAMBDA t : log[k][t], LAMBDA S : CHOOSE t \in S : TRUE,
                   {t \in Times : t <= end /\ t + Period > end}) <= Limit

\* The budget of wrong passwords is read before the password is checked and
\* spent after, so logins that overlap may each pass the same peek; a guess
\* whose spending finds the window full is not recorded either.  The wrong
\* passwords looked at in one window still stay within the limit plus two
\* for every other thread, as long as the limiter answers.
GuessesBounded ==
  "address" \notin overtaken =>
    \A end \in Times :
      MapThenFoldSet(+, 0, LAMBDA t : wrong[t], LAMBDA S : CHOOSE t \in S : TRUE,
                     {t \in Times : t <= end /\ t + Period > end})
        <= Limit + 2 * (Cardinality(Threads) - 1)

\* During an outage one thread per interval tries Redis; the others are let
\* through without paying its timeout (_claim_attempt).
OneTryPerInterval == tries <= 1

-----------------------------------------------------------------------------
(* Liveness: requests keep coming, and time passes. *)

Fairness ==
  /\ \A t \in Threads : WF_vars(Request(t) \/ Login(t) \/ Step(t))
  /\ WF_vars(IntervalPasses)

FairSpec == Spec /\ Fairness

\* Once Redis answers for good, the limits are applied again: the outage
\* and the refusal are forgotten.  Only check reports success, though: a
\* login's get_remaining that wins the interval's one attempt starts the
\* next interval without ending the outage, so the traffic must not be
\* logins alone.
EnforcesAgain ==
  (<>[](server = "up" /\ \A t \in Threads : task[t].op = "check"))
    => <>[](since = "never" /\ ~refused)
=============================================================================
