-------------------------------- MODULE MCWeb --------------------------------
(***************************************************************************)
(* Instances for TLC of the modules about requests and what they leave     *)
(* behind: the middleware pipeline, a shared HTTP cache before it, the     *)
(* timed caches of links and statistics behind it, the set-up of the       *)
(* loggers and the journals under rotation.  RequestPipeline is extended   *)
(* and the others are instantiated beside it.  The modules share no state: *)
(* a behaviour runs one of them and the others stay where they start.      *)
(***************************************************************************)
EXTENDS RequestPipeline, TLC

CONSTANTS t1, t2, Writers, Workers, Never

VARIABLES
  part,      \* the module that runs
  store, served, asked,
  settings, root, audit, level, propagate, opened, unavailable, chain, broken,
  outcome, counted, setups, faults,
  disk, name, packed, handle, at, rotating, lost, reader, reads,
  backend, clock, row, kept, expiry, task, requests, answer, excused

\* What the two tabs of the browser ask for.
AskedByTab ==
  (t1 :> {"health", "dashboard", "write", "change", "login"})
    @@ (t2 :> {"static", "page", "missing", "login", "refresh", "logout"})

S == INSTANCE SharedCache WITH
       Asked <- {"info", "extended", "qr", "stats", "visits", "mine", "index", "redirect",
                 "lost", "static"},
       MaxRequests <- 2

L == INSTANCE LoggingSetup WITH MaxSetups <- 2, MaxFaults <- 1

J == INSTANCE Journals WITH
       Limits <- {1, 2}, SCAN_LIMIT <- 2, Kept <- 2,
       MaxRecords <- 3, MaxRotations <- 2, MaxReads <- 1

E == INSTANCE CacheEntries WITH
       LinkTtl <- 1, StatsTtl <- 1, Lifetimes <- {3, Never}, Lag <- 3, MaxStay <- 1,
       MaxClock <- 6, MaxRequests <- 3

cache == <<store, served, asked>>
logging == <<settings, root, audit, level, propagate, opened, unavailable, chain, broken,
             outcome, counted, setups, faults>>
journals == <<disk, name, packed, handle, at, rotating, lost, reader, reads>>
entries == <<backend, clock, row, kept, expiry, task, requests, answer, excused>>

allVars == <<part, vars, cache, logging, journals, entries>>

\* The settings and the cookies of a part that does not run.
Pinned ==
  /\ part # "logging" => settings = CHOOSE s \in L!Settings : TRUE
  /\ part # "pipeline" => jar = EmptyJar /\ active = Users
  /\ part # "entries" => backend = "memory"

InitOf ==
  /\ part \in {"pipeline", "cache", "logging", "journals", "entries"}
  /\ Init /\ S!Init /\ L!Init /\ J!Init /\ E!Init
  /\ Pinned

StepOf ==
  /\ UNCHANGED part
  /\ \/ part = "pipeline" /\ Next /\ UNCHANGED <<cache, logging, journals, entries>>
     \/ part = "cache" /\ S!Next /\ UNCHANGED <<vars, logging, journals, entries>>
     \/ part = "logging" /\ L!Next /\ UNCHANGED <<vars, cache, journals, entries>>
     \/ part = "journals" /\ J!Next /\ UNCHANGED <<vars, cache, logging, entries>>
     \/ part = "entries" /\ E!Next /\ UNCHANGED <<vars, cache, logging, journals>>

SpecOf == InitOf /\ [][StepOf]_allVars

-----------------------------------------------------------------------------

\* SharedCache: whoever is answered out of a shared cache gets what the
\* service could have answered them: no figures meant for somebody else, in
\* their language and in an encoding they read.
ServedAsIfAsked == part = "cache" => S!ServedAsIfAsked

\* LoggingSetup: records vanish only where the deployment asked for none.
NeverSilentByAccident == part = "logging" => L!NeverSilentByAccident

\* Journals: a page no rotation overlapped is exactly the tail asked for, and
\* the start is only announced by a read that saw every line.
PageIsTheTail == part = "journals" => J!PageIsTheTail

\* CacheEntries: the database vouched for an answer within its lifetimes.
AnswersAreRecent == part = "entries" => E!AnswersAreRecent

\* CacheEntries: kept statistics tell the number of links unless a change
\* crossed them.
StatsTellTheTotal == part = "entries" => E!StatsTellTheTotal

-----------------------------------------------------------------------------
(* What the modules state besides, for WebMore.cfg. *)

\* The type invariants of the instances.
TypesOK ==
  /\ part = "cache" => S!TypeOK
  /\ part = "logging" => L!TypeOK
  /\ part = "journals" => J!TypeOK
  /\ part = "entries" => E!TypeOK

\* LoggingSetup: audit records stay out of the application's journals.
TrailKeptApart == part = "logging" => L!TrailKeptApart

\* LoggingSetup: a chain whose records are refused calls itself unhealthy.
ProbeTells == part = "logging" => L!ProbeTells

\* LoggingSetup: the journals reported as written are the ones attached.
StatusIsTrue == part = "logging" => L!StatusIsTrue

\* Journals: no record goes into a file that has been packed already.
NothingLost == part = "journals" => J!NothingLost

\* CacheEntries: an entry whose link has expired redirects nobody.
NothingServedAfterExpiry == part = "entries" => E!NothingServedAfterExpiry

\* CacheEntries: a redirect entry outlives its link by a second at most.
EntryDiesWithItsLink == part = "entries" => E!EntryDiesWithItsLink

\* CacheEntries: a key is counted exactly while something is stored under it.
CountsWhatItHolds == part = "entries" => E!CountsWhatItHolds
==============================================================================
