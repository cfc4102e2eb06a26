--------------------------- MODULE Configuration ---------------------------
(***************************************************************************)
(* How a process of the service finds its settings: the .env files are     *)
(* published into its environment, a profile is chosen and validated, and  *)
(* a database is opened or migrated                                        *)
(* (infrastructure/configs/app, cli/commands/alembic.py,                   *)
(* cli/adapters/flask.py, task_queue/celery_app.py).                       *)
(*                                                                         *)
(* Three layers hold what the operator wrote: exported variables,          *)
(* .env.<profile> and .env.  A layer maps every key to a raw word, "" for  *)
(* a variable that is absent or blank.  The words are abstract: a setting  *)
(* is a good word, or one of the words some check tells apart.             *)
(*                                                                         *)
(* Four kinds of process read them:                                        *)
(*   web      gunicorn or python: create_app, once                         *)
(*   worker   celery: get_config() when it configures itself, when it sets *)
(*            up its journals and when it builds its container             *)
(*   flask    "flask alembic": the Flask command merges .env first, then   *)
(*            create_app, then a child is handed the URL                   *)
(*   alembic  a bare "alembic upgrade head"                                *)
(***************************************************************************)
EXTENDS Integers, FiniteSets, Sequences, Functions, TLC

CONSTANTS
    MaxOdd,     \* how many entries differ from the starting deployment
    MaxRuns,    \* how many processes are started, one of a kind
    FileNames   \* may .env.<profile> name a profile itself?

VARIABLES
    layer,      \* what the operator wrote: [exported, profiled, dotenv]
    proc,       \* the process now running
    runs        \* what the finished ones did: a set of [kind, profile, target]

vars == <<layer, proc, runs>>
----------------------------------------------------------------------------
Layers == {"exported", "profiled", "dotenv"}

\* The words worth writing for each setting.  The three journal names, the log
\* level, the SameSite word and the port are words that are good or bad; a
\* lifetime, a length or a limit is a small number; both secrets are one.
Menu ==
    [FLASK_ENV |-> {"development", "staging", "production", "testing", "odd"},
     ALEMBIC_DATABASE_URL |-> {"pg elsewhere"},
     DATABASE_URL |-> {"pg", "pg alias", "pg padded", "file", "memory", "broken"},
     DATABASE_TYPE |-> {"sqlite", "postgresql", "odd"},
     DATABASE_HOST |-> {"db", "laced"},
     DATABASE_NAME |-> {"links", "laced", "climbing"},
     DATABASE_USER |-> {"app"},
     SECRET_KEY |-> {"key"},
     HOST_DOMAIN |-> {"host", "url"},   \* the variable DOMAIN
     REDIS_ENABLED |-> {"true", "false", "typo"},
     REDIS_URL |-> {"redis"},
     CORS_ORIGINS |-> {"site", "*"},
     LANGUAGES |-> {"en", "pt-BR"},
     WORDS |-> {"good", "bad"},
     MAIL_ENABLED |-> {"true"},
     MAIL_HOST |-> {"smtp"},
     MAIL_USE_TLS |-> {"true", "false"},
     MAIL_USE_SSL |-> {"true"},
     MAIL_USERNAME |-> {"sender"},
     MAIL_PASSWORD |-> {"word"},
     EMAIL_VERIFICATION_TTL_HOURS |-> {"0", "2", "3"},
     UNVERIFIED_ACCOUNT_TTL_HOURS |-> {"1", "2"},
     DEFAULT_GUEST_TTL_SECONDS |-> {"0", "2", "3"},
     MAX_TTL_SECONDS |-> {"0", "1"},
     BATCH_CREATE_LIMIT |-> {"0", "3"},
     MAX_URL_LENGTH |-> {"0", "2", "3"},
     MAX_CONTENT_LENGTH |-> {"0", "1", "3"},
     SHORT_CODE_LENGTH |-> {"0", "1", "3"}]

EnvKeys == DOMAIN Menu
Blank == [k \in EnvKeys |-> ""]
Numbers == {"EMAIL_VERIFICATION_TTL_HOURS", "UNVERIFIED_ACCOUNT_TTL_HOURS",
            "DEFAULT_GUEST_TTL_SECONDS", "MAX_TTL_SECONDS", "BATCH_CREATE_LIMIT",
            "MAX_URL_LENGTH", "MAX_CONTENT_LENGTH", "SHORT_CODE_LENGTH"}
Switches == {"REDIS_ENABLED", "MAIL_ENABLED", "MAIL_USE_TLS", "MAIL_USE_SSL"}

Profiles == {"development", "staging", "production", "testing"}
Deployed(p) == p \in {"staging", "production"}
----------------------------------------------------------------------------
(* The environment of a process.                                           *)

IsUnset(raw) == raw = ""

\* Under the Flask command a variable that says what .env says is taken for
\* the file's.
Replaceable(environ, shared, preloaded, k) ==
    IsUnset(environ[k]) \/ (preloaded /\ environ[k] = shared[k])

\* .env.<profile> goes first, .env fills what is left.
ApplyEnvFiles(environ, profiled, shared, preloaded) ==
    LET first == [k \in EnvKeys |->
                    IF profiled[k] # "" /\ Replaceable(environ, shared, preloaded, k)
                    THEN profiled[k] ELSE environ[k]]
    IN  [k \in EnvKeys |-> IF IsUnset(first[k]) THEN shared[k] ELSE first[k]]

\* The profile somebody named, "" when nobody did.
NamedEnv(environ, shared) ==
    IF IsUnset(environ["FLASK_ENV"]) THEN shared["FLASK_ENV"] ELSE environ["FLASK_ENV"]

ResolveEnv(named) == IF named = "" THEN "development" ELSE named

\* What a setting is when nobody set it, and each profile's own answers.
SecurityDefaults == [SECRET_KEY |-> "generated"]
AddressDefaults == [MAX_URL_LENGTH |-> "1", SHORT_CODE_LENGTH |-> "1"]
LimitDefaults == [BATCH_CREATE_LIMIT |-> "1", MAX_CONTENT_LENGTH |-> "2",
                  DEFAULT_GUEST_TTL_SECONDS |-> "1", MAX_TTL_SECONDS |-> "2"]
DatabaseDefaults == [DATABASE_TYPE |-> "sqlite", DATABASE_HOST |-> "localhost",
                     DATABASE_NAME |-> "db_shortener"]
MailDefaults == [MAIL_ENABLED |-> "false", MAIL_USE_TLS |-> "true", MAIL_USE_SSL |-> "false"]
ConfirmationDefaults == [EMAIL_VERIFICATION_TTL_HOURS |-> "1",
                         UNVERIFIED_ACCOUNT_TTL_HOURS |-> "2"]

BaseConfig ==
    SecurityDefaults @@ AddressDefaults @@ LimitDefaults @@ DatabaseDefaults
    @@ MailDefaults @@ ConfirmationDefaults
    @@ [REDIS_ENABLED |-> "false", REDIS_URL |-> "redis", CORS_ORIGINS |-> "site",
        LANGUAGES |-> "en", WORDS |-> "good"]
    @@ Blank

DevelopmentConfig == [MAIL_HOST |-> "localhost", MAIL_USE_TLS |-> "false"] @@ BaseConfig
ProductionConfig == [SECRET_KEY |-> "", REDIS_ENABLED |-> "true", REDIS_URL |-> "",
                     CORS_ORIGINS |-> ""] @@ BaseConfig
StagingConfig == ProductionConfig
TestingConfig == [DATABASE_URL |-> "memory", BATCH_CREATE_LIMIT |-> "2"] @@ BaseConfig

ConfigMap(p) ==
    CASE p = "development" -> DevelopmentConfig
      [] p = "staging" -> StagingConfig
      [] p = "production" -> ProductionConfig
      [] p = "testing" -> TestingConfig

Default(p, k) == ConfigMap(p)[k]

\* A declared setting reads the environment at every access; the testing
\* profile reads none of it.
Settings(p, environ) ==
    LET defaults == ConfigMap(p)
    IN  IF p = "testing" THEN defaults
        ELSE [k \in EnvKeys |-> IF IsUnset(environ[k]) THEN defaults[k] ELSE environ[k]]

Value(p, environ, k) == Settings(p, environ)[k]
----------------------------------------------------------------------------
(* The database a configuration names: <<backend, server, name>>, or       *)
(* <<"raises">> when none can be built.                                    *)

\* The driver alias is spelled out and the padding stripped.
Normalised(raw) ==
    CASE raw \in {"pg", "pg alias", "pg padded"} -> <<"postgresql", "url", "links">>
      [] raw = "pg elsewhere" -> <<"postgresql", "url", "elsewhere">>
      [] raw = "file" -> <<"sqlite", "", "named">>
      [] raw = "memory" -> <<"sqlite", "", ":memory:">>
      [] OTHER -> <<"raises">>

GetDatabaseUrl(p, environ) ==
    LET V == Settings(p, environ)
    IN  IF V["DATABASE_URL"] # "" THEN Normalised(V["DATABASE_URL"])
        ELSE CASE V["DATABASE_TYPE"] = "sqlite" -> <<"sqlite", "", V["DATABASE_NAME"]>>
               [] V["DATABASE_TYPE"] = "postgresql" /\ V["DATABASE_USER"] # "" ->
                      <<"postgresql", V["DATABASE_HOST"], V["DATABASE_NAME"]>>
               [] OTHER -> <<"raises">>

\* A part of the connection still at a default nobody wrote down.
NobodyNamed(p, environ) ==
    /\ Value(p, environ, "DATABASE_URL") = ""
    /\ Value(p, environ, "DATABASE_TYPE") = "postgresql"
    /\ \E k \in {"DATABASE_HOST", "DATABASE_NAME"} : IsUnset(environ[k])
----------------------------------------------------------------------------
(* What validation refuses.  Each operator is true of settings it faults;  *)
(* V holds the settings, N is the number one stands for.                   *)

N(V, k) == CHOOSE n \in 0..3 : V[k] = <<"0", "1", "2", "3">>[n + 1]

\* A value that does not convert stops the start as well.
CastFails(V) == \E k \in Switches : V[k] \notin {"true", "false"}

SecretErrors(V) == V["SECRET_KEY"] \in {"", "generated"}

DomainErrors(V) == V["HOST_DOMAIN"] = "url"

DatabaseErrors(V) ==
    \/ V["DATABASE_URL"] = "broken"
    \/ /\ V["DATABASE_TYPE"] = "postgresql"
       /\ "laced" \in {V["DATABASE_NAME"], V["DATABASE_HOST"]}
    \/ /\ V["DATABASE_TYPE"] = "sqlite"
       /\ V["DATABASE_NAME"] \in {"laced", "climbing"}
    \/ V["DATABASE_TYPE"] = "odd"

DeployedBackendErrors(p, environ) ==
    GetDatabaseUrl(p, environ)[1] \notin {"postgresql", "raises"}

\* CODE_MIN_LENGTH and CODE_MAX_LENGTH are 1 and 2 here, MAX_BATCH_ITEMS is 2
\* and the widest address column 2.
BoundsErrors(V) ==
    \/ N(V, "MAX_URL_LENGTH") \notin 1..2
    \/ N(V, "BATCH_CREATE_LIMIT") > 2
    \/ N(V, "MAX_CONTENT_LENGTH") < N(V, "BATCH_CREATE_LIMIT") * N(V, "MAX_URL_LENGTH")
    \/ N(V, "MAX_CONTENT_LENGTH") < 1
    \/ N(V, "SHORT_CODE_LENGTH") \notin 1..2

RedisErrors(V) == V["REDIS_ENABLED"] = "true" /\ V["REDIS_URL"] = ""

NumericErrors(V) ==
    \/ \E k \in {"BATCH_CREATE_LIMIT", "DEFAULT_GUEST_TTL_SECONDS", "MAX_TTL_SECONDS"} :
           N(V, k) < 1
    \/ N(V, "MAX_TTL_SECONDS") < N(V, "DEFAULT_GUEST_TTL_SECONDS")

MailErrors(p, V) ==
    LET tls == V["MAIL_USE_TLS"] = "true"
        ssl == V["MAIL_USE_SSL"] = "true"
    IN  \/ tls /\ ssl
        \/ /\ V["MAIL_ENABLED"] = "true"
           /\ \/ V["MAIL_HOST"] = ""
              \/ Deployed(p) /\ ~tls /\ ~ssl
              \/ V["MAIL_USERNAME"] # "" /\ ~tls /\ ~ssl
              \/ (V["MAIL_PASSWORD"] # "") # (V["MAIL_USERNAME"] # "")

ConfirmationErrors(V) ==
    \/ N(V, "EMAIL_VERIFICATION_TTL_HOURS") < 1
    \/ N(V, "UNVERIFIED_ACCOUNT_TTL_HOURS") < 1
    \/ N(V, "UNVERIFIED_ACCOUNT_TTL_HOURS") < N(V, "EMAIL_VERIFICATION_TTL_HOURS")

\* The default is "en"; a list without it, or with a tag that cannot be
\* parsed, is refused.
LanguageErrors(V) == V["LANGUAGES"] # "en"

LogLevelErrors(V) == V["WORDS"] = "bad"
SessionCookieErrors(V) == V["WORDS"] = "bad"
JournalNameErrors(V) == V["WORDS"] = "bad"
CorsErrors(V) == V["CORS_ORIGINS"] = "*"

BaseErrors(p, environ) ==
    LET V == Settings(p, environ)
    IN  \/ CastFails(V)
        \/ Deployed(p) /\ SecretErrors(V)
        \/ DomainErrors(V)
        \/ DatabaseErrors(V)
        \/ Deployed(p) /\ DeployedBackendErrors(p, environ)
        \/ BoundsErrors(V)
        \/ RedisErrors(V)
        \/ NumericErrors(V)
        \/ MailErrors(p, V)
        \/ ConfirmationErrors(V)
        \/ LogLevelErrors(V)
        \/ LanguageErrors(V)
        \/ JournalNameErrors(V)
        \/ SessionCookieErrors(V)
        \/ Deployed(p) /\ CorsErrors(V)

\* What staging and production ask beyond the base checks.
DeployedErrors(p, environ) ==
    \/ GetDatabaseUrl(p, environ) = <<"raises">>
    \/ NobodyNamed(p, environ)
    \/ Value(p, environ, "HOST_DOMAIN") = ""

Refused(p, environ) ==
    BaseErrors(p, environ) \/ (Deployed(p) /\ DeployedErrors(p, environ))
----------------------------------------------------------------------------
(* The refusals a migration has of its own.  profile and named are asked   *)
(* again, of the environment as the files have left it; p is the profile   *)
(* the configuration was built under.                                      *)

\* A SQLite file nobody named, or a database in memory.
RefusesSqlite(named, p, environ, url) ==
    /\ url[1] = "sqlite"
    /\ named # "development"
    /\ url[3] = ":memory:" \/ p = "testing" \/ IsUnset(environ["DATABASE_URL"])

\* The same on PostgreSQL: a server or a name left at its default.
RefusesUnnamed(named, p, environ) ==
    ResolveEnv(named) # "development" /\ NobodyNamed(p, environ)

RefusesTarget(p, environ, url) ==
    LET named == NamedEnv(environ, layer.dotenv)
    IN  RefusesSqlite(named, p, environ, url) \/ RefusesUnnamed(named, p, environ)
----------------------------------------------------------------------------
(* The processes.                                                          *)

Kinds == {"web", "worker", "flask", "alembic"}
Idle == [kind |-> "web", pc |-> "idle", environ |-> Blank, profile |-> "",
         made |-> 0]

\* The profile the operator's own words choose, and the file it reads.
Chosen == ResolveEnv(NamedEnv(layer.exported, layer.dotenv))
FileOf(p) == IF p = Chosen THEN layer.profiled ELSE Blank

\* A deployment that starts, or a checkout with nothing set.
Complete == [Blank EXCEPT !["FLASK_ENV"] = "production", !["DATABASE_URL"] = "pg",
                          !["SECRET_KEY"] = "key", !["HOST_DOMAIN"] = "host",
                          !["REDIS_URL"] = "redis", !["MAIL_ENABLED"] = "true",
                          !["MAIL_HOST"] = "smtp", !["MAIL_USERNAME"] = "sender",
                          !["MAIL_PASSWORD"] = "word"]

\* The same, its connection built from the parts.
InParts == [Complete EXCEPT !["DATABASE_URL"] = "", !["DATABASE_TYPE"] = "postgresql",
                            !["DATABASE_HOST"] = "db", !["DATABASE_NAME"] = "links",
                            !["DATABASE_USER"] = "app"]

\* One entry of one layer, written or blanked.
Edits == UNION {{[layer |-> l, key |-> k, word |-> w] : w \in Menu[k] \union {""}} :
                l \in Layers, k \in EnvKeys}

Edited(contents, e) == [contents EXCEPT ![e.layer][e.key] = e.word]

\* The layers with up to MaxOdd of their entries rewritten.
Init ==
    /\ \E base \in {Complete, InParts, Blank} : \E odd \in [1..MaxOdd -> Edits] :
           LET start == [l \in Layers |-> IF l = "dotenv" THEN base ELSE Blank]
           IN  /\ layer = FoldFunction(LAMBDA e, contents : Edited(contents, e), start, odd)
               /\ FileNames \/ layer["profiled"]["FLASK_ENV"] = ""
    /\ proc = Idle
    /\ runs = {}

\* The Flask command fills the environment from .env before any code of ours.
Start(kind) ==
    /\ proc.pc = "idle"
    /\ Cardinality(runs) < MaxRuns
    /\ \A r \in runs : r.kind # kind
    /\ proc' = [Idle EXCEPT !.kind = kind, !.pc = "started",
                  !.environ = IF kind = "flask"
                              THEN ApplyEnvFiles(layer.exported, Blank, layer.dotenv, FALSE)
                              ELSE layer.exported]
    /\ UNCHANGED <<layer, runs>>

Ends(target) ==
    /\ runs' = runs \union {[kind |-> proc.kind, profile |-> proc'.profile,
                        target |-> target]}
    /\ UNCHANGED layer

\* create_config_unvalidated: the profile's files are published, except for
\* the testing profile.
Published(p) ==
    IF p = "testing" THEN proc.environ
    ELSE ApplyEnvFiles(proc.environ, FileOf(p), layer.dotenv, proc.kind = "flask")

\* create_app, and each get_config() of a worker.
CreateConfig ==
    LET p == ResolveEnv(NamedEnv(proc.environ, layer.dotenv))
        environ == Published(p)
    IN  /\ proc.pc = "started" \/ (proc.kind = "worker" /\ proc.pc = "configured" /\ proc.made < 3)
        /\ proc.kind # "alembic"
        /\ IF p \notin Profiles \/ Refused(p, environ)
           THEN /\ proc' = [Idle EXCEPT !.profile = p]
                /\ Ends(<<"refused">>)
           ELSE /\ proc' = [proc EXCEPT !.pc = "configured", !.environ = environ,
                                        !.profile = p, !.made = @ + 1]
                /\ UNCHANGED <<layer, runs>>

\* The service opens its database.
Open ==
    /\ proc.pc = "configured"
    /\ proc.kind = "web" \/ (proc.kind = "worker" /\ proc.made = 3)
    /\ proc' = [Idle EXCEPT !.profile = proc.profile]
    /\ Ends(GetDatabaseUrl(proc.profile, proc.environ))

\* Slip: a value the parent inherited reaches the child instead.
Handed_Inherited(url) ==
    IF IsUnset(proc.environ["ALEMBIC_DATABASE_URL"]) THEN url
    ELSE Normalised(proc.environ["ALEMBIC_DATABASE_URL"])

\* What the child is told to migrate.
Handed(url) == url

\* "flask alembic" asks the refusals itself, then hands its URL to a child.
FlaskAlembic ==
    LET url == GetDatabaseUrl(proc.profile, proc.environ)
        refused == \/ url = <<"raises">>
                   \/ /\ proc.profile # "testing"
                      /\ RefusesTarget(proc.profile, proc.environ, url)
    IN  /\ proc.pc = "configured" /\ proc.kind = "flask"
        /\ proc' = [Idle EXCEPT !.profile = proc.profile]
        /\ Ends(IF refused THEN <<"refused">> ELSE Handed(url))

\* A bare alembic: a URL handed over outright, or the configuration's.
ResolveDatabaseUrl ==
    LET p == ResolveEnv(NamedEnv(proc.environ, layer.dotenv))
        environ == Published(p)
        V == Settings(p, environ)
        url == GetDatabaseUrl(p, environ)
        refused == \/ p \notin Profiles
                   \/ V["DATABASE_URL"] = "" /\ DatabaseErrors(V)
                   \/ url = <<"raises">>
                   \/ RefusesTarget(p, environ, url)
    IN  /\ proc.pc = "started" /\ proc.kind = "alembic"
        /\ proc' = [Idle EXCEPT !.profile = p]
        /\ Ends(CASE ~IsUnset(proc.environ["ALEMBIC_DATABASE_URL"]) ->
                       Normalised(proc.environ["ALEMBIC_DATABASE_URL"])
                  [] OTHER -> IF refused THEN <<"refused">> ELSE url)

Next ==
    \/ \E kind \in Kinds : Start(kind)
    \/ CreateConfig
    \/ Open
    \/ FlaskAlembic
    \/ ResolveDatabaseUrl

Spec == Init /\ [][Next]_vars
----------------------------------------------------------------------------
Words == UNION {Menu[k] : k \in EnvKeys} \union {""}

TypeOK ==
    /\ layer \in [Layers -> [EnvKeys -> Words]]
    /\ proc.kind \in Kinds
    /\ proc.pc \in {"idle", "started", "configured"}
    /\ proc.environ \in [EnvKeys -> Words]
    /\ proc.made \in 0..3
    /\ Cardinality(runs) <= MaxRuns

\* What the operator wrote for a setting, the leftmost layer first.
Written(k) ==
    LET said == SelectSeq(<<layer.exported[k], layer.profiled[k], layer.dotenv[k]>>,
                          LAMBDA raw : raw # "")
    IN  IF said = <<>> THEN "" ELSE Head(said)

\* The case the code calls genuinely ambiguous: an exported value that reads
\* like the .env entry, under the Flask command.
Ambiguous(k) ==
    /\ layer.exported[k] # "" /\ layer.exported[k] = layer.dotenv[k]
    /\ layer.profiled[k] # ""

\* Leftmost wins: every setting a configured process reads is the exported
\* one, or .env.<profile>'s, or .env's, or the profile's default, in that
\* order and however the process was started; the testing profile reads none
\* of them.  The Flask command's ambiguous case is excepted.
LeftmostWins ==
    proc.pc = "configured" => \A k \in EnvKeys :
        \/ Value(proc.profile, proc.environ, k)
              = (IF proc.profile = "testing" \/ Written(k) = ""
                 THEN Default(proc.profile, k) ELSE Written(k))
        \/ proc.kind = "flask" /\ Ambiguous(k)

\* Every way in leads to one database: whatever two processes started from
\* the same settings opened or migrated is the same one.  Only a URL handed
\* to a bare alembic by name, and the ambiguous case, can differ.
OneDatabase ==
    (\A k \in EnvKeys : ~Ambiguous(k)) =>
        \A r1, r2 \in runs :
            LET went(r) == /\ r.target \notin {<<"refused">>, <<"raises">>}
                           /\ r.kind = "alembic" => layer.exported["ALEMBIC_DATABASE_URL"] = ""
            IN  went(r1) /\ went(r2) => r1.target = r2.target

\* A migration changes only a database somebody named: a SQLite file by
\* DATABASE_URL unless development itself was named, a PostgreSQL server and
\* name both written down unless the profile is development.
MigratesWhatWasNamed ==
    \A r \in runs :
        LET named == NamedEnv(layer.exported, layer.dotenv)
        IN  /\ r.kind \in {"flask", "alembic"}
            /\ r.profile # "testing"
            /\ layer.exported["ALEMBIC_DATABASE_URL"] = ""
            => /\ r.target[1] = "sqlite" =>
                     named = "development" \/ (Written("DATABASE_URL") # "" /\ r.target[3] # ":memory:")
               /\ r.target[1] = "postgresql" =>
                     \/ r.profile = "development"
                     \/ Written("DATABASE_URL") # ""
                     \/ Written("DATABASE_HOST") # "" /\ Written("DATABASE_NAME") # ""

\* What the rest of the service takes for granted holds of every process that
\* came up, each time it reads its configuration: a deployed one is on a
\* PostgreSQL database and a secret somebody wrote, no account is swept
\* before its link expires, no guest link outlives the ceiling, the body limit
\* holds the largest batch, and a mail login travels encrypted.
StartsSound ==
    proc.pc = "configured" =>
        LET p == proc.profile
            V == Settings(p, proc.environ)
        IN  /\ Deployed(p) => /\ GetDatabaseUrl(p, proc.environ)[1] = "postgresql"
                              /\ Written("SECRET_KEY") # ""
                              /\ Written("HOST_DOMAIN") = "host"
            /\ N(V, "EMAIL_VERIFICATION_TTL_HOURS") <= N(V, "UNVERIFIED_ACCOUNT_TTL_HOURS")
            /\ N(V, "DEFAULT_GUEST_TTL_SECONDS") \in 1..N(V, "MAX_TTL_SECONDS")
            /\ N(V, "BATCH_CREATE_LIMIT") * N(V, "MAX_URL_LENGTH") <= N(V, "MAX_CONTENT_LENGTH")
            /\ V["MAIL_ENABLED"] = "true" /\ V["MAIL_USERNAME"] # "" =>
                   "true" \in {V["MAIL_USE_TLS"], V["MAIL_USE_SSL"]}

\* A process works under one profile, the one an exported FLASK_ENV or .env
\* names: .env.<profile> is read after the choice and does not change it, not
\* for a worker that builds its configuration three times and not for the
\* refusals of a migration.
ProfileChosenOnce ==
    LET named == IF layer.exported["FLASK_ENV"] # "" THEN layer.exported["FLASK_ENV"]
                 ELSE layer.dotenv["FLASK_ENV"]
        chosen == IF named = "" THEN "development" ELSE named
    IN  proc.profile \in {"", chosen}
============================================================================
