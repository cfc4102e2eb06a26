------------------------------ MODULE RollUps ------------------------------
(***************************************************************************)
(* A journal of moments and its day totals: the visits of a link in        *)
(* link_visits / link_visit_days, and the security events of a kind in     *)
(* security_events / security_event_days, which the code writes from one   *)
(* template.  A row is stamped when its handler begins and seen when its   *)
(* transaction commits; a roll-up folds the finished days it has not       *)
(* folded, commits, and then deletes raw rows past their retention in a    *)
(* transaction of its own.  Roll-ups may overlap, fail or be killed.       *)
(***************************************************************************)
EXTENDS Integers, FiniteSets, FiniteSetsExt

CONSTANTS Keys,        \* links, or kinds of event
          Writers,     \* handlers that record
          Runners,     \* roll-ups that may run at the same time
          Retention,   \* retention_days; 0 disables the sweep
          Span,        \* days of the longest chart drawn from raw rows
          LastDay,     \* bound: the clock
          MaxRows      \* bound: rows recorded

ASSUME LimitsAssumption == LastDay \in Nat /\ Retention \in Nat /\ Span \in Nat

VARIABLES
  today,      \* the calendar day
  linked,     \* keys that exist: a link can be deleted, and its rows with it
  raw,        \* raw[k][d]: committed raw rows
  folded,     \* folded[k][d]: the day row, or NoTotal
  writing,    \* per writer: the row stamped and not committed yet
  run,        \* per runner: its progress
  happened,   \* history: rows committed per key and day
  late        \* history: days that a row joined after a fold had read them

vars == <<today, linked, raw, folded, writing, run, happened, late>>

Days == 0 .. LastDay
NoTotal == -1
NoRow == [key |-> NoTotal, day |-> NoTotal]
Holding(at, day) == [at |-> at, today |-> day, from |-> 0, rows |-> {}]
Resting == Holding("idle", 0)

Rows(f) == MapThenSumSet(LAMBDA p : f[p[1]][p[2]], Keys \X Days)

Init ==
  /\ today = 0 /\ linked = Keys /\ late = {}
  /\ raw = [k \in Keys |-> [d \in Days |-> 0]] /\ happened = raw
  /\ folded = [k \in Keys |-> [d \in Days |-> NoTotal]]
  /\ writing = [w \in Writers |-> NoRow]
  /\ run = [r \in Runners |-> Resting]

-----------------------------------------------------------------------------
(* Recording *)

\* The moment is taken from the clock when the handler starts.
Stamp(w, k) ==
  /\ writing[w] = NoRow /\ k \in linked
  /\ Rows(happened) + Cardinality({v \in Writers : writing[v] # NoRow}) < MaxRows
  /\ writing' = [writing EXCEPT ![w] = [key |-> k, day |-> today]]
  /\ UNCHANGED <<today, linked, raw, folded, run, happened, late>>

\* A fold whose reading of day d is already behind it.
ReadAlready(d) ==
  \/ \E k \in Keys : folded[k][d] # NoTotal
  \/ \E k \in Keys, e \in Days : e > d /\ folded[k][e] # NoTotal
  \/ \E r \in Runners : \/ run[r].at = "group" /\ d < run[r].from
                        \/ run[r].at \in {"write", "commit", "sweep"} /\ d < run[r].today

\* record, and the commit that makes the row visible; a link deleted in the
\* meantime refuses it (foreign key).
Record(w) ==
  LET k == writing[w].key
      d == writing[w].day
  IN  /\ writing[w] # NoRow
      /\ writing' = [writing EXCEPT ![w] = NoRow]
      /\ IF k \in linked
         THEN /\ raw' = [raw EXCEPT ![k][d] = @ + 1]
              /\ happened' = [happened EXCEPT ![k][d] = @ + 1]
              /\ late' = IF ReadAlready(d) THEN late \union {d} ELSE late
         ELSE UNCHANGED <<raw, happened, late>>
      /\ UNCHANGED <<today, linked, folded, run>>

\* Slip: the raw rows do not go with their link.
DeleteLink_LeavesRaw(k) ==
  /\ k \in linked /\ Cardinality(linked) > 1
  /\ \A r \in Runners : run[r].at = "commit" => \A x \in run[r].rows : x.key # k
  /\ linked' = linked \ {k}
  /\ raw' = raw
  /\ happened' = [happened EXCEPT ![k] = [d \in Days |-> 0]]
  /\ folded' = [folded EXCEPT ![k] = [d \in Days |-> NoTotal]]
  /\ UNCHANGED <<today, writing, run, late>>

\* ON DELETE CASCADE on both tables; waits for rows being folded.
DeleteLink(k) ==
  /\ k \in linked /\ Cardinality(linked) > 1
  /\ \A r \in Runners : run[r].at = "commit" => \A x \in run[r].rows : x.key # k
  /\ linked' = linked \ {k}
  /\ raw' = [raw EXCEPT ![k] = [d \in Days |-> 0]]
  /\ happened' = [happened EXCEPT ![k] = [d \in Days |-> 0]]
  /\ folded' = [folded EXCEPT ![k] = [d \in Days |-> NoTotal]]
  /\ UNCHANGED <<today, writing, run, late>>

NextDay ==
  /\ today < LastDay /\ today' = today + 1
  /\ UNCHANGED <<linked, raw, folded, writing, run, happened, late>>

-----------------------------------------------------------------------------
(* RollUpVisitsUseCase, RollUpSecurityEventsUseCase *)

Go(r, x) == run' = [run EXCEPT ![r] = x]

Begin(r) ==
  /\ run[r].at \in {"idle", "killed"}
  /\ Go(r, Holding("bound", today))
  /\ UNCHANGED <<today, linked, raw, folded, writing, happened, late>>

\* The day after the latest row of any key; a first run takes everything.
FirstUnfoldedDay ==
  LET done == {d \in Days : \E k \in Keys : folded[k][d] # NoTotal}
  IN  IF done = {} THEN 0 ELSE 1 + CHOOSE d \in done : \A e \in done : e <= d

ReadBound(r) ==
  /\ run[r].at = "bound"
  /\ Go(r, [run[r] EXCEPT !.at = "group", !.from = FirstUnfoldedDay])
  /\ UNCHANGED <<today, linked, raw, folded, writing, happened, late>>

Finished(d, before) == d < before

\* The grouped count.
Grouped(r) ==
  {[key |-> p[1], day |-> p[2], total |-> raw[p[1]][p[2]]] :
     p \in {q \in Keys \X Days : /\ raw[q[1]][q[2]] > 0 /\ q[2] >= run[r].from
                                 /\ Finished(q[2], run[r].today)}}

\* With nothing to fold the run goes on to the sweep.
Group(r) ==
  /\ run[r].at = "group"
  /\ Go(r, [run[r] EXCEPT !.rows = Grouped(r),
                          !.at = IF Grouped(r) = {} THEN "sweep" ELSE "write"])
  /\ UNCHANGED <<today, linked, raw, folded, writing, happened, late>>

\* The key on (link, day), and the foreign key.
Refuses(row) == folded[row.key][row.day] # NoTotal \/ row.key \notin linked

\* The insert: waits for a run that has written one of the same rows and not
\* committed, and fails when a row is refused; then nothing is swept.
Write(r) ==
  /\ run[r].at = "write"
  /\ \A o \in Runners \ {r} : run[o].at = "commit" =>
       \A x \in run[r].rows, y \in run[o].rows : <<x.key, x.day>> # <<y.key, y.day>>
  /\ Go(r, IF \E x \in run[r].rows : Refuses(x)
           THEN Resting ELSE [run[r] EXCEPT !.at = "commit"])
  /\ UNCHANGED <<today, linked, raw, folded, writing, happened, late>>

RowsFor(r, k, d) == {x \in run[r].rows : x.key = k /\ x.day = d}

Commit(r) ==
  /\ run[r].at = "commit"
  /\ folded' = [k \in Keys |-> [d \in Days |->
                  IF RowsFor(r, k, d) = {} THEN folded[k][d]
                  ELSE (CHOOSE x \in RowsFor(r, k, d) : TRUE).total]]
  /\ Go(r, [run[r] EXCEPT !.at = "sweep", !.rows = {}])
  /\ UNCHANGED <<today, linked, raw, writing, happened, late>>

\* delete_raw_before / delete_before: older than today - retention.
Expired(d, on) == Retention > 0 /\ d < on - Retention

Sweep(r) ==
  /\ run[r].at = "sweep"
  /\ raw' = [k \in Keys |-> [d \in Days |->
               IF Expired(d, run[r].today) THEN 0 ELSE raw[k][d]]]
  /\ Go(r, Resting)
  /\ UNCHANGED <<today, linked, folded, writing, happened, late>>

\* The command dies between two steps; what it had not committed is undone.
Crash(r) ==
  /\ run[r].at \notin {"idle", "killed", "bound"}
  /\ Go(r, Holding("killed", 0))
  /\ UNCHANGED <<today, linked, raw, folded, writing, happened, late>>

Step(r) == Begin(r) \/ ReadBound(r) \/ Group(r) \/ Write(r) \/ Commit(r) \/ Sweep(r)

Next ==
  \/ \E w \in Writers : Record(w) \/ \E k \in Keys : Stamp(w, k)
  \/ \E k \in Keys : DeleteLink(k)
  \/ \E r \in Runners : Step(r) \/ Crash(r)
  \/ NextDay

Spec == Init /\ [][Next]_vars

-----------------------------------------------------------------------------
(* What the charts read *)

\* daily_totals / _lay_the_folded_days_over for one key: the day row where
\* there is one, the raw count elsewhere.
DailyTotal(k, d) == IF folded[k][d] # NoTotal THEN folded[k][d] ELSE raw[k][d]

\* Type invariant.
TypeOK ==
  /\ today \in Days /\ linked \subseteq Keys /\ late \subseteq Days
  /\ \A k \in Keys : /\ raw[k] \in [Days -> 0 .. MaxRows]
                     /\ happened[k] \in [Days -> 0 .. MaxRows]
                     /\ folded[k] \in [Days -> {NoTotal} \union 1 .. MaxRows]
  /\ \A r \in Runners :
       /\ run[r].at \in {"idle", "killed", "bound", "group", "write", "commit", "sweep"}
       /\ (run[r].rows # {}) = (run[r].at \in {"write", "commit"})
  /\ \A w \in Writers : writing[w] = NoRow \/ writing[w].day <= today

\* The day-by-day series shows every row of every day, however the folds and
\* sweeps overlapped or died, unless a row of that day was committed after a
\* fold had read it: a row stamped before midnight and committed after is
\* the one way a finished day changes (roll_up_days, fold_days_before).  No
\* row is ever counted twice.
DailyTotalsExact ==
  \A k \in Keys, d \in Days :
    /\ DailyTotal(k, d) <= happened[k][d]
    /\ d \notin late => DailyTotal(k, d) = happened[k][d]

\* The chart drawn from raw rows has all of them over its whole span as long
\* as the retention is at least the days before today in that span: a sweep,
\* however stale the day it was started on, takes nothing from it
\* (RollUpVisitsUseCase.execute).
SpanIsWhole ==
  (Retention = 0 \/ Retention >= Span - 1) =>
    \A k \in Keys, d \in Days : d > today - Span => raw[k][d] = happened[k][d]

\* A day row, once written, is what it was until its link is deleted: an
\* overlapping run is refused by the key, not merged or overwritten.
FoldedRowsStay ==
  [][\A k \in Keys, d \in Days :
       (folded[k][d] # NoTotal /\ k \in linked') => folded'[k][d] = folded[k][d]]_vars

-----------------------------------------------------------------------------
(* Liveness: the roll-up is scheduled every night and rows are committed.  *)

Fairness == /\ \A r \in Runners : WF_vars(Step(r))
            /\ \A w \in Writers : WF_vars(Record(w))
FairSpec == Spec /\ Fairness

\* Once roll-ups stop being killed, every finished day with rows is folded;
\* only a day that a row joined late may stay without a day row for a key.
FoldedInTheEnd ==
  (<>[](\A r \in Runners : run[r].at # "killed")) =>
  <>[](\A k \in Keys, d \in Days :
         (d < today /\ raw[k][d] > 0 /\ d \notin late) => folded[k][d] # NoTotal)
=============================================================================
