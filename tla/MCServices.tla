----------------------------- MODULE MCServices -----------------------------
(***************************************************************************)
(* Instances for TLC of the modules about what the application depends on  *)
(* and cannot count on: failover between services, the connection to       *)
(* Redis, the rate limiter, the queue and the mail server, and the health  *)
(* answer.  Failover is extended and the others are instantiated beside    *)
(* it.  The modules share no state.  A behaviour runs one of them, the     *)
(* others stay where they start, so their state spaces add up instead of   *)
(* multiplying.                                                            *)
(***************************************************************************)
EXTENDS Failover

CONSTANTS Threads, Pair, Jobs, Languages, None

VARIABLES
  part,      \* the module that runs
  client, available, recent, redis, redisOutages, at, held, dials,
  tick, backend, store, since, refused, server, outages, task,
  log, latest, overtaken, wrong, tries,
  queue, mode, account, broker, failedAt, envs, job, clickTries,
  clock, state, migrated, configured, asking, holder, cached, cachedAt, schemaSeen,
  future, obs, changes

C == INSTANCE CacheConnection WITH
       MaxOutages <- 2, server <- redis, outages <- redisOutages

R == INSTANCE RateLimit WITH
       Threads <- Pair, Limit <- 1, Period <- 2, MaxClock <- 2, MaxOutages <- 1,
       clock <- tick

M == INSTANCE MailDelivery WITH MaxRetries <- 2, tries <- clickTries

H == INSTANCE HealthCheck WITH
       CACHE_TTL_SECONDS <- 1, Timeout <- 2, MaxClock <- 4, MaxMoods <- 2,
       call <- asking, mood <- state, moods <- changes

cache == <<client, available, recent, redis, redisOutages, at, held, dials>>
limiter == <<tick, backend, store, since, refused, server, outages, task,
             log, latest, overtaken, wrong, tries>>
mail == <<queue, mode, account, broker, failedAt, envs, job, clickTries>>
health == <<clock, state, migrated, configured, asking, holder, cached, cachedAt, schemaSeen,
            future, obs, changes>>
allVars == <<part, vars, cache, limiter, mail, health>>

\* Settings a part that does not run is given, and the deployments whose
\* health is asked about: a bare one and a complete one.
Pinned ==
  /\ part # "cache" => redis = TRUE
  /\ part # "limiter" => backend = "memory" /\ server = "up"
  /\ part # "mail" => queue = "null" /\ mode = "ssl" /\ account = TRUE
  /\ part # "health" => migrated = TRUE /\ configured = {}
  /\ part = "health" => configured \in {{}, {"cache", "task_queue"}}

InitOf ==
  /\ part \in {"failover", "cache", "limiter", "mail", "health"}
  /\ Init /\ C!Init /\ R!Init /\ M!Init /\ H!Init
  /\ Pinned

StepOf ==
  /\ UNCHANGED part
  /\ \/ part = "failover" /\ Next /\ UNCHANGED <<cache, limiter, mail, health>>
     \/ part = "cache" /\ C!Next /\ UNCHANGED <<vars, limiter, mail, health>>
     \/ part = "limiter" /\ R!Next /\ UNCHANGED <<vars, cache, mail, health>>
     \/ part = "mail" /\ M!Next /\ UNCHANGED <<vars, cache, limiter, health>>
     \/ part = "health" /\ H!Next /\ UNCHANGED <<vars, cache, limiter, mail>>

SpecOf == InitOf /\ [][StepOf]_allVars

-----------------------------------------------------------------------------

\* RateLimit: the sliding window admits no more than its limit.
WithinTheWindow == part = "limiter" => R!WithinTheWindow

\* RateLimit: wrong passwords looked at are bounded by the limit and the
\* requests that overlap.
GuessesBounded == part = "limiter" => R!GuessesBounded

\* CacheConnection, RateLimit, MailDelivery: however many threads meet an
\* outage of Redis or of the broker, one of them per retry interval pays for
\* finding out (_ensure_connection and the two _claim_attempt).
OneTryPerInterval ==
  /\ part = "cache" => C!OneDialPerInterval
  /\ part = "limiter" => R!OneTryPerInterval
  /\ part = "mail" => M!OneTryPerInterval

\* MailDelivery: a message is given up only after every retry.
SentOrExhausted == part = "mail" => M!SentOrExhausted

\* HealthCheck: what is remembered was observed.
TellsTheTruth == H!TellsTheTruth

-----------------------------------------------------------------------------
(* What the modules state besides, for ServicesMore.cfg. *)

\* The type invariants of the instances.
TypesOK ==
  /\ part = "cache" => C!TypeOK
  /\ part = "limiter" => R!TypeOK
  /\ part = "mail" => M!TypeOK
  /\ part = "health" => H!TypeOK

\* CacheConnection: no operation runs on a client that is not there.
OperatesOnAClient == part = "cache" => C!OperatesOnAClient

\* MailDelivery: the password crosses only encrypted connections.
LoginIsSecret == part = "mail" => M!LoginIsSecret

\* MailDelivery: no socket outlives its attempt.
NoSocketLeft == part = "mail" => M!NoSocketLeft

\* MailDelivery: messages keep the language of their request.
SpokenAsAsked == part = "mail" => M!SpokenAsAsked

\* HealthCheck: the checks of one answer share one deadline.
OneDeadline == part = "health" => H!OneDeadline

\* HealthCheck: a flood of requests costs one round of checks.
FloodCostsOne == H!FloodCostsOne
=============================================================================
