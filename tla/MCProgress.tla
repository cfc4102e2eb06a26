----------------------------- MODULE MCProgress -----------------------------
(***************************************************************************)
(* What must eventually happen, component by component: small instances    *)
(* of the modules with fairness, for TLC, and beside it the safety of      *)
(* LinkCreation, whose requests are the ones that wait for each other.     *)
(* LinkCreation is extended and the others are instantiated beside it.     *)
(* The modules share no state: a behaviour runs one of them and the        *)
(* others stay where they start.                                           *)
(***************************************************************************)
EXTENDS LinkCreation, TLC

CONSTANTS Caller, Threads, Job, Users, User, Tabs, Tab, Key, Writer, Runners,
          Cache, Code, u1, u2

VARIABLES
  part,      \* the module that runs
  current, lastCheck, cooled, checker, call, mood, moods,
  client, available, recent, redis, redisOutages, at, held, dials,
  clock, backend, store, since, refused, server, outages, asked,
  log, latest, overtaken, wrong, tries,
  queue, mode, account, broker, failedAt, envs, job, clickTries,
  today, linked, raw, folded, writing, run, happened, late,
  jar, active, req, sent, events,
  links, nextId, expired, closed, l1, l2, dedup, clicks, serving, started,
  audits, dropped, overlapped

F == INSTANCE Failover WITH Callers <- {Caller}, Last <- 2, MaxMoods <- 3

C == INSTANCE CacheConnection WITH MaxOutages <- 2, server <- redis, outages <- redisOutages

R == INSTANCE RateLimit WITH
       Limit <- 1, Period <- 2, MaxClock <- 0, MaxOutages <- 1, task <- asked

M == INSTANCE MailDelivery WITH
       Jobs <- {Job}, Languages <- {"en"}, MaxRetries <- 3, tries <- clickTries

V == INSTANCE RollUps WITH
       Keys <- {Key}, Writers <- {Writer}, Retention <- 1, Span <- 1, LastDay <- 2, MaxRows <- 2

P == INSTANCE RequestPipeline WITH
       Asked <- [t \in Tabs |-> {"page"} \cup IF t = Tab THEN {"login"} ELSE {}],
       Free <- {"page"}, MaxRequests <- 1, MaxEvents <- 1

\* The URLs collide on their first salted code, and two batches in opposite
\* order want each other's first.
Digests == (u1 :> (0 :> 1 @@ 1 :> 3 @@ 2 :> 2)) @@ (u2 :> (0 :> 2 @@ 1 :> 3 @@ 2 :> 1))
Batches == {<<u1, u2>>, <<u2, u1, u2, Bad>>, <<Bad>>}

L == INSTANCE LinkLifecycle WITH
       Caches <- {Cache}, CacheOf <- [w \in Workers |-> Cache], Codes <- {Code}, Urls <- {u1},
       Owners <- {}, MaxLinks <- 2, MaxRequests <- 3, MaxAttempts <- 2,
       CacheMayFail <- FALSE, ClickMayBeLost <- FALSE, task <- serving

failover == <<current, lastCheck, cooled, checker, call, mood, moods>>
cache == <<client, available, recent, redis, redisOutages, at, held, dials>>
limiter == <<clock, backend, store, since, refused, server, outages, asked,
             log, latest, overtaken, wrong, tries>>
mail == <<queue, mode, account, broker, failedAt, envs, job, clickTries>>
rollups == <<today, linked, raw, folded, writing, run, happened, late>>
pipeline == <<jar, active, req, sent, events>>
lifecycle == <<links, nextId, expired, closed, l1, l2, dedup, clicks, serving, started,
               audits, dropped, overlapped>>
allVars == <<part, vars, failover, cache, limiter, mail, rollups, pipeline, lifecycle>>

\* What a part that does not run is given.
Pinned ==
  /\ part # "cache" => redis = TRUE
  /\ part # "limiter" => backend = "memory" /\ server = "up"
  /\ part # "mail" => queue = "null" /\ mode = "ssl" /\ account = TRUE
  /\ part # "pipeline" => jar = P!EmptyJar /\ active = {}
  /\ part = "pipeline" => active = Users /\ jar \in {P!EmptyJar, P!Cookies(User)}

InitOf ==
  /\ part \in {"failover", "cache", "limiter", "mail", "rollups", "pipeline", "creation",
               "lifecycle"}
  /\ F!Init /\ C!Init /\ R!Init /\ M!Init /\ V!Init /\ P!Init /\ Init /\ L!Init
  /\ Pinned

StepOf ==
  /\ UNCHANGED part
  /\ \/ /\ part = "failover" /\ F!Next
        /\ UNCHANGED <<cache, limiter, mail, rollups, pipeline, vars, lifecycle>>
     \/ /\ part = "cache" /\ C!Next
        /\ UNCHANGED <<failover, limiter, mail, rollups, pipeline, vars, lifecycle>>
     \/ /\ part = "limiter" /\ R!Next
        /\ UNCHANGED <<failover, cache, mail, rollups, pipeline, vars, lifecycle>>
     \/ /\ part = "mail" /\ M!Next
        /\ UNCHANGED <<failover, cache, limiter, rollups, pipeline, vars, lifecycle>>
     \/ /\ part = "rollups" /\ V!Next
        /\ UNCHANGED <<failover, cache, limiter, mail, pipeline, vars, lifecycle>>
     \/ /\ part = "pipeline" /\ P!Next
        /\ UNCHANGED <<failover, cache, limiter, mail, rollups, vars, lifecycle>>
     \/ /\ part = "creation" /\ Next
        /\ UNCHANGED <<failover, cache, limiter, mail, rollups, pipeline, lifecycle>>
     \/ /\ part = "lifecycle" /\ L!Next
        /\ UNCHANGED <<failover, cache, limiter, mail, rollups, pipeline, vars>>

\* The fairness of each module, for the part that runs.
Fairness ==
  /\ WF_failover(part = "failover" /\ F!CallStep(Caller))
  /\ WF_failover(part = "failover" /\ F!AttemptDemotion)
  /\ WF_failover(part = "failover" /\ F!AttemptUpgrade)
  /\ WF_failover(part = "failover" /\ F!Cool)
  /\ \A t \in Threads : WF_cache(part = "cache" /\ C!Step(t))
  /\ WF_cache(part = "cache" /\ C!IntervalPasses)
  /\ \A t \in Threads : WF_limiter(part = "limiter" /\ (R!Request(t) \/ R!Login(t) \/ R!Step(t)))
  /\ WF_limiter(part = "limiter" /\ R!IntervalPasses)
  /\ WF_mail(part = "mail" /\ M!Work(Job))
  /\ \A r \in Runners : WF_rollups(part = "rollups" /\ V!Step(r))
  /\ WF_rollups(part = "rollups" /\ V!Record(Writer))
  /\ \A t \in Tabs : /\ WF_pipeline(part = "pipeline" /\ P!Step(t))
                     /\ WF_pipeline(part = "pipeline" /\ P!Browse(t))
  /\ \A w \in Workers : /\ WF_vars(part = "creation" /\ Step(w))
                        /\ WF_lifecycle(part = "lifecycle" /\ L!Step(w))
                        /\ WF_lifecycle(part = "lifecycle" /\ L!StartClick(w))

SpecOf == InitOf /\ [][StepOf]_allVars /\ Fairness

-----------------------------------------------------------------------------

\* Whatever was begun comes to an end: a call of the failover manager, which
\* its turns bound; a message accepted for sending, sent, given up or lost
\* with its worker; a creation, which may wait for a lock or a code; a request
\* about a link.
EverythingEnds ==
  /\ part = "failover" => F!CallsEnd
  /\ part = "mail" => M!AcceptedEnds
  /\ part = "creation" => CreationsEnd
  /\ part = "lifecycle" => L!RequestsEnd

\* Once the outside stops disturbing it, every component finds its way back:
\* the work settles on the preferred service that works, the cache is
\* connected and the limits are applied when Redis stays up, every finished
\* day is folded, a CSRF cookie fits its owner, and a stale cache entry is
\* gone with the next counted click.
EverythingHeals ==
  /\ part = "failover" => F!SettlesOnBest
  /\ part = "cache" => C!CacheRecovers
  /\ part = "limiter" => R!EnforcesAgain
  /\ part = "rollups" => V!FoldedInTheEnd
  /\ part = "pipeline" => P!TokenHeals
  /\ part = "lifecycle" => L!StaleEntriesHeal
=============================================================================
