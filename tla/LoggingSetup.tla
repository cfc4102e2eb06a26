---------------------------- MODULE LoggingSetup ----------------------------
(***************************************************************************)
(* How a process gets its journals: setup_logging attaches handlers to the *)
(* root and the audit logger for whatever the settings ask and the disk    *)
(* allows, the managers build the chains that write through them, and the  *)
(* chains probe themselves.  Files may refuse to open, and a handler that  *)
(* opened may stop taking writes.                                          *)
(***************************************************************************)
EXTENDS Integers, FiniteSets, Sequences, SequencesExt

CONSTANTS MaxSetups, MaxFaults    \* bounds: configurations, disks failing

VARIABLES
  settings,     \* LoggingSettings, by the switches
  root, audit,  \* handlers of the two loggers, in order of attachment
  level,        \* level of the root logger and of the audit logger
  propagate,    \* whether audit records also go up to the root logger
  opened, unavailable,   \* _OPENED, _UNAVAILABLE
  chain,        \* services of the application's chain, preferred first
  broken,       \* destinations that no longer take a write
  outcome,      \* the last record: who wrote it, where it arrived, whether it raised
  counted,      \* security events of the last record counted in the database
  setups, faults

vars == <<settings, root, audit, level, propagate, opened, unavailable, chain, broken,
          outcome, counted, setups, faults>>

DEBUG == 1
INFO == 2
WARNING == 3
ERROR == 4
CRITICAL == 5

Settings == [logging_enabled : BOOLEAN, audit_enabled : BOOLEAN, log_to_console : BOOLEAN,
             should_log_to_file : BOOLEAN, log_level : {DEBUG, WARNING, ERROR},
             logger_type : {"structlog", "standard", "null"}]

Handler(to, at) == [to |-> to, level |-> at]
Nothing == [by |-> "nobody", level |-> DEBUG, to |-> {}, raised |-> FALSE, healthy |-> TRUE]

Init ==
  /\ settings \in Settings
  /\ root = <<>> /\ audit = <<>> /\ level = [root |-> WARNING, audit |-> DEBUG]
  /\ propagate = TRUE /\ opened = {} /\ unavailable = {} /\ chain = <<>> /\ broken = {}
  /\ outcome = Nothing /\ counted = 0 /\ setups = 0 /\ faults = 0

-----------------------------------------------------------------------------
(* setup_logging *)

\* _open_journal: a file that will not open is left out and remembered.
OpenJournal(s, journal, at, refused) ==
  IF ~s.should_log_to_file \/ journal \in refused THEN <<>> ELSE <<Handler(journal, at)>>

Console(s, at) == IF s.log_to_console THEN <<Handler("console", at)>> ELSE <<>>

\* Slip: the two ways of ending up empty are treated alike.
EnsureAPlaceToWrite_Null(handlers, at, missing) ==
  IF handlers = <<>> THEN <<Handler("null", DEBUG)>> ELSE handlers

\* A journal that failed is replaced by the console, a journal nobody asked
\* for by nothing.
EnsureAPlaceToWrite(handlers, at, missing) ==
  IF handlers # <<>> THEN handlers
  ELSE IF missing # {} THEN <<Handler("console", at)>> ELSE <<Handler("null", DEBUG)>>

Cleared(handlers) == <<>>

SetupRoot(s, refused) ==
  IF ~s.logging_enabled THEN Cleared(root) \o <<Handler("null", DEBUG)>>
  ELSE EnsureAPlaceToWrite(
         Cleared(root) \o Console(s, s.log_level)
           \o OpenJournal(s, "application", s.log_level, refused)
           \o OpenJournal(s, "error", ERROR, refused),
         s.log_level,
         IF s.should_log_to_file THEN refused \cap {"application", "error"} ELSE {})

SetupAudit(s, refused) ==
  IF ~s.audit_enabled THEN Cleared(audit) \o <<Handler("null", DEBUG)>>
  ELSE EnsureAPlaceToWrite(
         Cleared(audit) \o Console(s, INFO) \o OpenJournal(s, "audit", INFO, refused),
         INFO, IF s.should_log_to_file THEN refused \cap {"audit"} ELSE {})

Propagates(s) == FALSE

\* The journals that are tried, whichever of them open.
Tried(s) ==
  IF ~s.should_log_to_file THEN {}
  ELSE (IF s.logging_enabled THEN {"application", "error"} ELSE {})
         \cup (IF s.audit_enabled THEN {"audit"} ELSE {})

Unavailable(s, refused) == Tried(s) \cap refused

\* What was logged in between says nothing to the next configuration, so it
\* is only tried before anything was.
SetupLogging(s, refused) ==
  /\ setups < MaxSetups /\ setups' = setups + 1
  /\ chain = <<>> /\ outcome = Nothing /\ faults = 0
  /\ settings' = s
  /\ opened' = Tried(s) \ refused /\ unavailable' = Unavailable(s, refused)
  /\ root' = SetupRoot(s, refused) /\ audit' = SetupAudit(s, refused)
  /\ level' = [root |-> IF s.logging_enabled THEN s.log_level ELSE CRITICAL,
               audit |-> IF s.audit_enabled THEN INFO ELSE level.audit]
  /\ propagate' = Propagates(s)
  /\ chain' = <<>> /\ broken' = {} /\ outcome' = Nothing /\ counted' = 0
  /\ UNCHANGED faults

-----------------------------------------------------------------------------
(* LoggerManager._init_failover_service *)

Order(type) ==
  CASE type = "standard" -> <<"standard", "structlog">>
    [] type = "null" -> <<"null">>
    [] OTHER -> <<"structlog", "standard">>

\* A service that cannot be built is left out; with none left, null.
InitFailoverService(type, failing) ==
  LET built == SelectSeq(Order(type), LAMBDA n : n = "null" \/ n \notin failing)
  IN  IF built = <<>> THEN <<"null">> ELSE built

BuildChain(failing) ==
  /\ setups > 0 /\ chain = <<>>
  /\ chain' = InitFailoverService(settings.logger_type, failing)
  /\ UNCHANGED <<settings, root, audit, level, propagate, opened, unavailable, broken,
                 outcome, counted, setups, faults>>

-----------------------------------------------------------------------------
(* A record on its way to the handlers *)

\* The handlers a record of this level is handed to, its logger's and, where
\* it propagates, the root's.
Reached(by, at) ==
  LET own == IF by = "audit" THEN audit ELSE root
      up == IF by = "audit" /\ propagate THEN root ELSE <<>>
  IN  IF at < level[by] THEN {} ELSE {h \in ToSet(own \o up) : h.level <= at /\ h.to # "null"}

\* _RaisesForOwnRecords: a refused write of this application's own raises.
Raised(by, at) == \E h \in Reached(by, at) : h.to \in broken

Write(by, at) ==
  outcome' = [by |-> by, level |-> at, healthy |-> TRUE, raised |-> Raised(by, at),
              to |-> {h.to : h \in Reached(by, at)} \ broken]

Log(at) ==
  /\ chain # <<>> /\ Head(chain) # "null" /\ Write("root", at) /\ counted' = 0
  /\ UNCHANGED <<settings, root, audit, level, propagate, opened, unavailable, chain, broken,
                 setups, faults>>

\* CountingAuditLogger.log_security_event: counted on the way, in a
\* transaction of its own that may fail, and written whether it did or not.
LogSecurityEvent ==
  /\ setups > 0 /\ settings.audit_enabled /\ Write("audit", INFO)
  /\ counted' \in {0, 1}
  /\ UNCHANGED <<settings, root, audit, level, propagate, opened, unavailable, chain, broken,
                 setups, faults>>

\* probe_level: as far as a real record travels, but never an error.
ProbeLevel(by) == IF level[by] > WARNING THEN WARNING ELSE level[by]

\* is_healthy, of either chain.
IsHealthy(by) ==
  /\ setups > 0
  /\ outcome' = [by |-> "probe of " \o by, level |-> ProbeLevel(by), raised |-> FALSE,
                 healthy |-> ~Raised(by, ProbeLevel(by)),
                 to |-> {h.to : h \in Reached(by, ProbeLevel(by))} \ broken]
  /\ counted' = 0
  /\ UNCHANGED <<settings, root, audit, level, propagate, opened, unavailable, chain, broken,
                 setups, faults>>

\* A disk fills up, or a mount goes away.
Break(to) ==
  /\ setups > 0 /\ faults < MaxFaults /\ to \notin broken
  /\ broken' = broken \cup {to} /\ faults' = faults + 1
  /\ outcome' = Nothing /\ counted' = 0
  /\ UNCHANGED <<settings, root, audit, level, propagate, opened, unavailable, chain, setups>>

Next ==
  \/ \E refused \in SUBSET {"application", "error", "audit"} :
       \E s \in Settings : (setups = 0 => s = settings) /\ SetupLogging(s, refused)
  \/ \E failing \in SUBSET {"structlog", "standard"} : BuildChain(failing)
  \/ \E at \in {DEBUG, INFO, WARNING, ERROR} : Log(at)
  \/ LogSecurityEvent
  \/ \E by \in {"root", "audit"} : IsHealthy(by)
  \/ \E to \in {"application", "error", "audit", "console"} : Break(to)

Spec == Init /\ [][Next]_vars

-----------------------------------------------------------------------------
(* Properties *)

\* Type invariant.
TypeOK ==
  /\ settings \in Settings /\ level \in [{"root", "audit"} -> DEBUG..CRITICAL]
  /\ opened \cap unavailable = {}
  /\ \A h \in ToSet(root \o audit) :
       h.to \in {"console", "application", "error", "audit", "null"} /\ h.level \in DEBUG..CRITICAL
  /\ counted \in {0, 1}

\* A record of a kind the deployment keeps is dropped in silence only where
\* the deployment asked for no output at all: a journal that would not open
\* hands its records to the console instead (_ensure_a_place_to_write).
NeverSilentByAccident ==
  (outcome.by \in {"root", "audit"} /\ outcome.level >= level[outcome.by] /\ outcome.to = {}) =>
    \/ outcome.raised
    \/ ~settings.log_to_console /\ ~settings.should_log_to_file
    \* the application journal failed alone, and error.log stayed
    \/ /\ outcome.by = "root" /\ ~settings.log_to_console
       /\ "application" \in unavailable /\ "error" \in opened /\ outcome.level < ERROR
    \/ outcome.by = "root" /\ ~settings.logging_enabled

\* Audit records never arrive in the application's journals, switched on or
\* off, and no destination is handed a record twice however often the process
\* is configured (setup_logging).
TrailKeptApart ==
  /\ outcome.by = "audit" => outcome.to \subseteq {"audit", "console"}
  /\ setups > 0 => /\ ~propagate
                   /\ \A hs \in {root, audit} : IsInjective(hs)

\* Below ERROR, a chain whose records are refused calls itself unhealthy, and
\* a probe never lands in the error journal (probe_level).
ProbeTells ==
  \A by \in {"root", "audit"} :
    (outcome.by = "probe of " \o by) =>
      /\ (level[by] <= WARNING /\ outcome.healthy) => ~Raised(by, level[by])
      /\ "error" \notin outcome.to

\* What the health answer says about this process is what its loggers hold:
\* journals written are attached, journals missing are not
\* (journals_written, journals_unavailable).
StatusIsTrue ==
  setups > 0 =>
    {h.to : h \in ToSet(root \o audit)} \ {"console", "null"} = opened
=============================================================================
