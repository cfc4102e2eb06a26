--------------------------- MODULE CacheConnection ---------------------------
(***************************************************************************)
(* The connection of the Redis cache: several threads of one process share *)
(* a client and an "available" flag that they read and write without a     *)
(* lock; only the decision who reconnects is taken under one.  A step of   *)
(* the model is one read or write of a shared attribute, one trip to the   *)
(* server, or one critical section.                                        *)
(***************************************************************************)
EXTENDS Naturals

CONSTANTS Threads,
          MaxOutages    \* bound: times the server goes down

VARIABLES
  client,     \* _client is not None
  available,  \* _available
  recent,     \* _last_attempt lies within the retry interval
  server,     \* Redis answers
  outages,    \* outages so far
  at,         \* per thread: where it is in an operation
  held,       \* per thread: the client it read, TRUE if there was one
  dials       \* history: reconnections begun since the interval last ran out

vars == <<client, available, recent, server, outages, at, held, dials>>
shared == <<client, available, recent>>

Init ==
  /\ server \in BOOLEAN
  /\ client = server /\ available = server   \* _connect, in the constructor
  /\ recent = FALSE /\ outages = 0 /\ dials = 0
  /\ at = [t \in Threads |-> "idle"] /\ held = [t \in Threads |-> FALSE]

Go(t, p) == at' = [at EXCEPT ![t] = p]

-----------------------------------------------------------------------------
(* _ensure_connection *)

\* The unlocked test reads the two attributes one after the other.
ReadClient(t) ==
  /\ at[t] = "idle"
  /\ Go(t, IF client THEN "flag" ELSE "decide")
  /\ UNCHANGED <<shared, server, outages, held, dials>>

ReadFlag(t) ==
  /\ at[t] = "flag"
  /\ Go(t, IF available THEN "take" ELSE "decide")
  /\ UNCHANGED <<shared, server, outages, held, dials>>

\* Slip: the winner stamps the clock only once it has an answer.
Stamp_Late == recent

Stamp == TRUE

\* Under the reconnect lock: one caller per interval goes on to dial.
Decide(t) ==
  /\ at[t] = "decide"
  /\ \/ /\ client /\ available
        /\ Go(t, "take") /\ UNCHANGED <<recent, dials>>
     \/ /\ ~(client /\ available) /\ recent
        /\ Go(t, "idle") /\ UNCHANGED <<recent, dials>>
     \/ /\ ~(client /\ available) /\ ~recent
        /\ recent' = Stamp
        /\ dials' = IF dials < 2 THEN dials + 1 ELSE dials
        /\ Go(t, "dial")
  /\ UNCHANGED <<client, available, server, outages, held>>

\* from_url and ping, outside the lock.
Dial(t) ==
  /\ at[t] = "dial"
  /\ Go(t, IF server THEN "keep" ELSE "failed")
  /\ UNCHANGED <<shared, server, outages, held, dials>>

DialFailed(t) ==
  /\ at[t] = "failed"
  /\ recent' = TRUE /\ Go(t, "idle")
  /\ UNCHANGED <<client, available, server, outages, held, dials>>

KeepClient(t) ==
  /\ at[t] = "keep"
  /\ client' = TRUE /\ Go(t, "announce")
  /\ UNCHANGED <<available, recent, server, outages, held, dials>>

Announce(t) ==
  /\ at[t] = "announce"
  /\ available' = TRUE /\ recent' = TRUE /\ Go(t, "take")
  /\ UNCHANGED <<client, server, outages, held, dials>>

-----------------------------------------------------------------------------
(* _execute_read and _execute_write *)

\* The client may be gone again: read once, and a miss if it is.
TakeClient(t) ==
  /\ at[t] = "take"
  /\ held' = [held EXCEPT ![t] = client]
  /\ Go(t, IF client THEN "operate" ELSE "idle")
  /\ UNCHANGED <<shared, server, outages, dials>>

\* A ResponseError: the server answered and the connection is kept.
Rejected(t) == at[t] = "operate" /\ server /\ Go(t, "idle")

Operate(t) ==
  /\ \/ at[t] = "operate" /\ server /\ Go(t, "idle")
     \/ Rejected(t)
     \/ at[t] = "operate" /\ ~server /\ Go(t, "lost")
  /\ UNCHANGED <<shared, server, outages, held, dials>>

\* _mark_unavailable: three assignments, no lock.
ClearFlag(t) ==
  /\ at[t] = "lost" /\ available' = FALSE /\ Go(t, "drop")
  /\ UNCHANGED <<client, recent, server, outages, held, dials>>

DropClient(t) ==
  /\ at[t] = "drop" /\ client' = FALSE /\ Go(t, "failed")
  /\ UNCHANGED <<available, recent, server, outages, held, dials>>

-----------------------------------------------------------------------------
(* The clock and the server *)

IntervalPasses ==
  /\ recent /\ recent' = FALSE /\ dials' = 0
  /\ UNCHANGED <<client, available, server, outages, at, held>>

GoesDown ==
  /\ server /\ outages < MaxOutages
  /\ server' = FALSE /\ outages' = outages + 1
  /\ UNCHANGED <<shared, at, held, dials>>

ComesBack ==
  /\ ~server /\ server' = TRUE
  /\ UNCHANGED <<shared, outages, at, held, dials>>

Step(t) ==
  \/ ReadClient(t) \/ ReadFlag(t) \/ Decide(t) \/ Dial(t) \/ DialFailed(t)
  \/ KeepClient(t) \/ Announce(t) \/ TakeClient(t) \/ Operate(t)
  \/ ClearFlag(t) \/ DropClient(t)

Next == (\E t \in Threads : Step(t)) \/ IntervalPasses \/ GoesDown \/ ComesBack

Spec == Init /\ [][Next]_vars

-----------------------------------------------------------------------------
(* Properties *)

\* Type invariant.
TypeOK ==
  /\ {client, available, recent, server} \subseteq BOOLEAN
  /\ outages \in 0 .. MaxOutages /\ dials \in 0 .. 2
  /\ held \in [Threads -> BOOLEAN]
  /\ at \in [Threads -> {"idle", "flag", "decide", "dial", "failed", "keep",
                          "announce", "take", "operate", "lost", "drop"}]

\* An operation is never carried out on a client that another thread's
\* failure has taken away: a lost connection is a miss, not an error that
\* leaves the cache (_execute_read, _execute_write).
OperatesOnAClient == \A t \in Threads : at[t] = "operate" => held[t]

\* However many threads meet the outage, one of them dials per interval
\* (_ensure_connection, _mark_unavailable).
OneDialPerInterval == dials <= 1

-----------------------------------------------------------------------------
(* Liveness: requests keep coming, so every thread goes on calling, and    *)
(* time passes.                                                            *)

Fairness == (\A t \in Threads : WF_vars(Step(t))) /\ WF_vars(IntervalPasses)
FairSpec == Spec /\ Fairness

\* When the server stays up, the cache is connected from some moment on and
\* stays so, whatever a late _mark_unavailable or a refused command did.
CacheRecovers == (<>[]server) => <>[](client /\ available)
=============================================================================
