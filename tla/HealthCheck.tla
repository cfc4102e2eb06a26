---------------------------- MODULE HealthCheck ----------------------------
(***************************************************************************)
(* InfrastructureHealthCheck.snapshot: callers share one observation under *)
(* a lock, an observation asks the schema on its own thread and then four  *)
(* components at once against one deadline, and an answer stands for       *)
(* CACHE_TTL_SECONDS.  Components refuse, or hang, while it happens.       *)
(***************************************************************************)
EXTENDS Integers, FiniteSets, Sequences

CONSTANTS Callers,
          CACHE_TTL_SECONDS, Timeout,    \* in ticks of the clock
          None,
          MaxClock, MaxMoods             \* bounds

Checks == {"database", "cache", "task_queue", "rate_limiter"}
Order == <<"database", "cache", "task_queue", "rate_limiter">>

VARIABLES
  clock,
  mood,        \* component -> "up", "down" or "hung"
  migrated,    \* whether the database holds the tables
  configured,  \* the components this deployment has besides the database
  call,        \* caller -> where its request stands
  holder,      \* who holds the lock
  cached, cachedAt, schemaSeen,
  future,      \* the checks of the observation in flight
  obs,         \* the observation: started, deadline, results, timed_out, schema
  moods        \* mood changes so far

vars == <<clock, mood, migrated, configured, call, holder, cached, cachedAt, schemaSeen,
          future, obs, moods>>

NoObs == [started |-> 0, deadline |-> 0, next |-> 1, results |-> {}, timed_out |-> {},
          schema |-> FALSE, steady |-> TRUE]

Init ==
  /\ clock = 0 /\ mood = [c \in Checks |-> "up"] /\ migrated \in BOOLEAN
  /\ configured \in SUBSET {"cache", "task_queue"}
  /\ call = [c \in Callers |-> "idle"] /\ holder = None
  /\ cached = None /\ cachedAt = 0 /\ schemaSeen = FALSE
  /\ future = [c \in Checks |-> "none"] /\ obs = NoObs /\ moods = 0

-----------------------------------------------------------------------------
Arrive(c) ==
  /\ call[c] = "idle" /\ call' = [call EXCEPT ![c] = "locking"]
  /\ UNCHANGED <<clock, mood, migrated, configured, holder, cached, cachedAt, schemaSeen,
                 future, obs, moods>>

Fresh == cached # None /\ clock - cachedAt < CACHE_TTL_SECONDS

\* snapshot: the lock, and what is younger than the TTL.
TakeLock(c) ==
  /\ call[c] = "locking" /\ holder = None
  /\ IF Fresh
     THEN /\ call' = [call EXCEPT ![c] = "idle"] /\ UNCHANGED <<holder, obs>>
     ELSE /\ holder' = c /\ call' = [call EXCEPT ![c] = "schema"]
          /\ obs' = [NoObs EXCEPT !.started = clock]
  /\ UNCHANGED <<clock, mood, migrated, configured, cached, cachedAt, schemaSeen, future, moods>>

\* Slip: whatever was found once is never asked again.
Remembers_Any(whole) == TRUE

\* Only a whole schema is remembered.
Remembers(whole) == whole

\* check_schema, on the caller's thread: outside the budget, until the
\* database answers or its own timeouts end the question.
CheckSchema(c) ==
  /\ call[c] = "schema"
  /\ \E whole \in BOOLEAN :
       /\ whole = (schemaSeen \/ (mood["database"] = "up" /\ migrated))
       /\ schemaSeen' = (schemaSeen \/ Remembers(whole))
       /\ obs' = [obs EXCEPT !.schema = whole, !.deadline = clock + Timeout]
  /\ future' = [k \in Checks |-> "running"]
  /\ call' = [call EXCEPT ![c] = "await"]
  /\ UNCHANGED <<clock, mood, migrated, configured, holder, cached, cachedAt, moods>>

\* check_database, check_cache, check_task_queue, check_rate_limiter: a
\* component this deployment does not have has nothing to be down.
Answers(k) ==
  IF k \in {"cache", "task_queue"} \ configured THEN "ok"
  ELSE IF mood[k] = "up" THEN "ok" ELSE "no"

Returns(k) == future[k] = "running" /\ (mood[k] # "hung" \/ k \in {"cache", "task_queue"} \ configured)

Probe(k) ==
  /\ Returns(k)
  /\ future' = [future EXCEPT ![k] = Answers(k)]
  /\ UNCHANGED <<clock, mood, migrated, configured, call, holder, cached, cachedAt,
                 schemaSeen, obs, moods>>

DeadlineOf(o) == o.deadline

\* future.result(timeout=deadline.remaining()), in the order of the checks.
Await(c) ==
  LET k == Order[obs.next] IN
  /\ call[c] = "await" /\ obs.next <= Len(Order)
  /\ \/ /\ future[k] = "ok"
        /\ obs' = [obs EXCEPT !.next = @ + 1, !.results = @ \cup {k}, !.deadline = DeadlineOf(obs)]
     \/ future[k] = "no" /\ obs' = [obs EXCEPT !.next = @ + 1, !.deadline = DeadlineOf(obs)]
     \/ /\ future[k] = "running" /\ clock >= obs.deadline
        /\ obs' = [obs EXCEPT !.next = @ + 1, !.timed_out = @ \cup {k}, !.deadline = DeadlineOf(obs)]
  /\ UNCHANGED <<clock, mood, migrated, configured, call, holder, cached, cachedAt,
                 schemaSeen, future, moods>>

\* HealthSnapshot.healthy
Healthy(s) ==
  /\ "database" \in s.ok /\ s.schema /\ "rate_limiter" \in s.ok /\ "task_queue" \in s.ok
  /\ "cache" \in s.ok \/ "cache" \notin s.configured

\* component_states, of the database: three ways to be unwell.
DatabaseState(s) ==
  CASE "database" \in s.timed_out -> "timeout"
    [] "database" \notin s.ok \cup s.timed_out -> "unavailable"
    [] OTHER -> IF s.schema THEN "ok" ELSE "no_schema"

\* /health: 503 where nothing can be served, 200 where a restart would not help.
Health(s) ==
  LET serves == "database" \in s.ok /\ s.schema IN
  [status |-> IF ~serves THEN "unhealthy" ELSE IF Healthy(s) THEN "healthy" ELSE "degraded",
   code |-> IF serves THEN 200 ELSE 503, database |-> DatabaseState(s)]

\* Stamped after the observation, not before it.
StampedAt(o) == clock

\* The executor is let go without being joined; a check that still hangs
\* answers nobody.
Finish(c) ==
  LET s == [ok |-> obs.results, timed_out |-> obs.timed_out, schema |-> obs.schema,
            configured |-> configured, ended |-> clock]
  IN  /\ call[c] = "await" /\ obs.next > Len(Order)
      /\ cached' = s /\ cachedAt' = StampedAt(obs)
      /\ future' = [k \in Checks |-> "none"] /\ obs' = NoObs
      /\ call' = [call EXCEPT ![c] = "idle"] /\ holder' = None
      /\ UNCHANGED <<clock, mood, migrated, configured, schemaSeen, moods>>

-----------------------------------------------------------------------------
\* Threads outrun the clock: it moves when nobody is ready to.
Waiting(c) == \/ call[c] = "idle"
              \/ call[c] = "locking" /\ holder # None
              \/ /\ call[c] = "await" /\ obs.next <= Len(Order)
                 /\ future[Order[obs.next]] = "running" /\ clock < obs.deadline

Tick ==
  /\ clock < MaxClock /\ clock' = clock + 1
  /\ \A c \in Callers : Waiting(c)
  /\ \A k \in Checks : ~Returns(k)
  /\ UNCHANGED <<mood, migrated, configured, call, holder, cached, cachedAt, schemaSeen,
                 future, obs, moods>>

\* A component fails, hangs, or comes back; an observation it happens in is
\* not a steady one.
ChangeMood(k, m) ==
  /\ moods < MaxMoods /\ mood[k] # m /\ moods' = moods + 1
  /\ mood' = [mood EXCEPT ![k] = m]
  /\ obs' = IF holder = None THEN obs ELSE [obs EXCEPT !.steady = FALSE]
  /\ UNCHANGED <<clock, migrated, configured, call, holder, cached, cachedAt, schemaSeen,
                 future>>

Migrate ==
  /\ ~migrated /\ migrated' = TRUE
  /\ obs' = IF holder = None THEN obs ELSE [obs EXCEPT !.steady = FALSE]
  /\ UNCHANGED <<clock, mood, configured, call, holder, cached, cachedAt, schemaSeen,
                 future, moods>>

Step(c) == TakeLock(c) \/ CheckSchema(c) \/ Await(c) \/ Finish(c)

Next ==
  \/ \E c \in Callers : Arrive(c) \/ Step(c)
  \/ \E k \in Checks : Probe(k) \/ \E m \in {"up", "down", "hung"} : ChangeMood(k, m)
  \/ Tick \/ Migrate

Spec == Init /\ [][Next]_vars

-----------------------------------------------------------------------------
(* Properties *)

\* Type invariant.
TypeOK ==
  /\ clock \in 0..MaxClock /\ cachedAt \in 0..MaxClock
  /\ call \in [Callers -> {"idle", "locking", "schema", "await"}]
  /\ holder \in Callers \cup {None}
  /\ future \in [Checks -> {"none", "running", "ok", "no"}]
  /\ obs.results \cap obs.timed_out = {}

\* One deadline for the four: an observation is over within Timeout of its
\* first check, however many components hang (_Deadline).
OneDeadline == holder # None => clock - obs.started <= Timeout

\* A flood costs one observation: between the end of one and the beginning
\* of the next the TTL passes, even where an observation takes longer than
\* that itself (snapshot, stamped after the observation).
FloodCostsOne ==
  [][\A c \in Callers : (call[c] = "locking" /\ call'[c] = "schema" /\ cached # None) =>
       clock - cached.ended >= CACHE_TTL_SECONDS]_vars

\* An observation nothing changed during is right: the service is healthy
\* exactly when every component the deployment has answers and the tables
\* are there, out of rotation exactly when the database or its tables are
\* missing, and what hangs is told from what refuses
\* (HealthSnapshot, component_states, /health).
TellsTheTruth ==
  [][(obs.steady /\ holder # None /\ holder' = None) =>
       LET s == cached' h == Health(s)
           had == {"database", "rate_limiter"} \cup configured
           serves == mood["database"] = "up" /\ migrated
       IN  /\ (h.status = "healthy") = (migrated /\ \A k \in had : mood[k] = "up")
           /\ (h.code = 200) = serves
           /\ s.timed_out = {k \in had : mood[k] = "hung"}
           /\ (h.database = "no_schema") = (mood["database"] = "up" /\ ~migrated)]_vars
=============================================================================
