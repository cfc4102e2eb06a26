------------------------------ MODULE Failover ------------------------------
(***************************************************************************)
(* The failover manager the two log managers are built on: an ordered list *)
(* of interchangeable services, 1 the preferred one, of which one is       *)
(* active.  A call asks the active service outside the lock, and moves the *)
(* work one place down, under the lock, when the service fails it.  The    *)
(* health thread moves the work down past a service that reports itself    *)
(* unwell and, once per cooldown, back up.                                 *)
(***************************************************************************)
EXTENDS Naturals, FiniteSets, FiniteSetsExt

CONSTANTS Callers,     \* threads that make calls
          Last,        \* the services are 1 .. Last
          MaxMoods     \* bound: changes of a service's mood in a behaviour

\* The constructor refuses an empty list of services.
ASSUME LastAssumption == Last \in Nat \ {0}
ASSUME BoundAssumption == MaxMoods \in Nat

(***************************************************************************)
(* What a service does when it is called and when it is probed: a lying    *)
(* one reports itself well and fails its calls, a mute one raises from the *)
(* probe.                                                                  *)
(***************************************************************************)
Moods == {"well", "ill", "mute", "lying"}
Services == 1 .. Last

\* What the last round of the health thread found.
CheckOutcome == {"not run", "healthy", "unhealthy", "probe failed"}

VARIABLES
  current,     \* _current_index
  lastCheck,   \* _last_check
  cooled,      \* the upgrade cooldown has run out
  checker,     \* where the health thread is: "wait", "upgrade" or "stopped"
  call,        \* per caller: the local variables of execute
  mood,        \* per service: how it behaves now
  moods        \* changes of mood so far

vars == <<current, lastCheck, cooled, checker, call, mood, moods>>
env == <<mood, moods>>

Answers(s) == mood[s] = "well"
Healthy(s) == mood[s] \in {"well", "lying"}

Idle == [pc |-> "idle", index |-> 0, tried |-> {}, turns |-> 0, raised |-> 0]

Init ==
  /\ current = 1 /\ lastCheck = "not run" /\ cooled = TRUE
  /\ checker = "wait"
  /\ call = [c \in Callers |-> Idle]
  /\ mood = [s \in Services |-> "well"] /\ moods = 0

(***************************************************************************)
(* Every call in progress remembers how often the work moved up beside it  *)
(* (a history variable; it is read by properties alone).                   *)
(***************************************************************************)
NoteRaise(up) ==
  [c \in Callers |-> IF up /\ call[c].pc # "idle"
                     THEN [call[c] EXCEPT !.raised = Min({2, @ + 1})] ELSE call[c]]

-----------------------------------------------------------------------------
(* execute *)

\* Slip: one turn per service.
Turns_Few == Last

Turns == 2 * Last

CallState == [pc : {"idle", "turn", "ask", "step", "drop"}, index : 0 .. Last,
              tried : SUBSET Services, turns : 0 .. Turns, raised : 0 .. 2]

Execute(c) ==
  /\ call[c].pc = "idle"
  /\ call' = [call EXCEPT ![c] = [Idle EXCEPT !.pc = "turn", !.turns = Turns]]
  /\ UNCHANGED <<current, lastCheck, cooled, checker, env>>

MoreTurns(k) == Cardinality(k.tried) < Last /\ k.turns > 0

\* The active service is read under the lock and asked outside it; one that
\* has already failed this call is not asked again.
ReadCurrent(c) ==
  /\ call[c].pc = "turn" /\ MoreTurns(call[c])
  /\ call' = [call EXCEPT ![c].turns = IF @ > 0 THEN @ - 1 ELSE 0,
                          ![c].index = current,
                          ![c].tried = @ \cup {current},
                          ![c].pc = IF current \in call[c].tried THEN "step" ELSE "ask"]
  /\ UNCHANGED <<current, lastCheck, cooled, checker, env>>

Ask(c) ==
  /\ call[c].pc = "ask"
  /\ call' = [call EXCEPT ![c] = IF Answers(@.index) THEN Idle ELSE [@ EXCEPT !.pc = "step"]]
  /\ UNCHANGED <<current, lastCheck, cooled, checker, env>>

\* Slip: a caller steps down whoever is active now.
StillActive_Any(c) == TRUE

\* Another caller, or the health thread, may have moved the work already.
StillActive(c) == current = call[c].index

StepDown(c) ==
  /\ call[c].pc = "step"
  /\ \/ /\ ~StillActive(c)
        /\ call' = [call EXCEPT ![c].pc = "turn"]
        /\ UNCHANGED current
     \/ /\ StillActive(c) /\ current < Last
        /\ current' = current + 1
        /\ call' = [call EXCEPT ![c].pc = "turn"]
     \/ /\ StillActive(c) /\ current >= Last
        /\ call' = [call EXCEPT ![c].pc = "drop"]
        /\ UNCHANGED current
  /\ UNCHANGED <<lastCheck, cooled, checker, env>>

LoopEnds(c) ==
  /\ call[c].pc = "turn" /\ ~MoreTurns(call[c])
  /\ call' = [call EXCEPT ![c].pc = "drop"]
  /\ UNCHANGED <<current, lastCheck, cooled, checker, env>>

\* ALL_SERVICES_FAILED is returned and the call is counted as dropped.
Drop(c) ==
  /\ call[c].pc = "drop"
  /\ call' = [call EXCEPT ![c] = Idle]
  /\ UNCHANGED <<current, lastCheck, cooled, checker, env>>

-----------------------------------------------------------------------------
(* The health thread: a demotion and, if there was none, an upgrade, each  *)
(* under the lock.                                                         *)

Below == {s \in (current + 1) .. Last : Healthy(s)}

DemoteTo == IF Below # {} THEN Min(Below) ELSE current

AttemptDemotion ==
  /\ checker = "wait"
  /\ \/ /\ Healthy(current)
        /\ lastCheck' = "healthy" /\ checker' = "upgrade" /\ UNCHANGED current
     \/ /\ mood[current] = "mute"
        /\ lastCheck' = "probe failed" /\ checker' = "upgrade" /\ UNCHANGED current
     \/ /\ mood[current] = "ill"
        /\ current' = DemoteTo
        /\ lastCheck' = IF current' # current THEN "healthy" ELSE "unhealthy"
        /\ checker' = IF current' # current THEN "wait" ELSE "upgrade"
  /\ UNCHANGED <<cooled, call, env>>

Above == {s \in 1 .. (current - 1) : Healthy(s)}

\* The preferred service that answers, not the nearest.
UpgradeTo == IF Above # {} THEN Min(Above) ELSE current

AttemptUpgrade ==
  /\ checker = "upgrade"
  /\ checker' = "wait"
  /\ \/ /\ current = 1 \/ ~cooled
        /\ UNCHANGED <<current, lastCheck, cooled, call>>
     \/ /\ current # 1 /\ cooled
        /\ cooled' = FALSE
        /\ current' = UpgradeTo
        /\ lastCheck' = IF current' # current THEN "healthy" ELSE lastCheck
        /\ call' = NoteRaise(current' # current)
  /\ UNCHANGED env

\* The stop event ends the thread at its next wait.
Shutdown ==
  /\ checker = "wait" /\ checker' = "stopped"
  /\ UNCHANGED <<current, lastCheck, cooled, call, env>>

\* The clock: the cooldown since the last attempt has passed.
Cool ==
  /\ ~cooled /\ cooled' = TRUE
  /\ UNCHANGED <<current, lastCheck, checker, call, env>>

-----------------------------------------------------------------------------
(* The services are the log handlers; they fail and recover on their own.  *)

ChangeMood ==
  /\ moods < MaxMoods /\ moods' = moods + 1
  /\ \E s \in Services, m \in Moods : mood' = [mood EXCEPT ![s] = m]
  /\ UNCHANGED <<current, lastCheck, cooled, checker, call>>

CallStep(c) == ReadCurrent(c) \/ Ask(c) \/ StepDown(c) \/ LoopEnds(c) \/ Drop(c)

Next ==
  \/ \E c \in Callers : Execute(c) \/ CallStep(c)
  \/ AttemptDemotion \/ AttemptUpgrade \/ Shutdown \/ Cool \/ ChangeMood

Spec == Init /\ [][Next]_vars

-----------------------------------------------------------------------------
(* Properties *)

\* Type invariant.
TypeOK ==
  /\ current \in Services
  /\ lastCheck \in CheckOutcome
  /\ cooled \in BOOLEAN /\ checker \in {"wait", "upgrade", "stopped"}
  /\ mood \in [Services -> Moods] /\ moods \in 0 .. MaxMoods
  /\ call \in [Callers -> CallState]

\* execute gives a call up only after the last service of the list failed
\* it.  The one exception is the backstop of 2 * n turns, and running out
\* of turns takes two upgrades beside the call: it is never lost to a
\* single race with the health thread.
DroppedAtTheBottom ==
  \A c \in Callers :
    call[c].pc = "drop" => (Last \in call[c].tried \/ call[c].raised >= 2)

\* However many callers fail on a service at once, the work moves down one
\* place, past the service that failed the caller moving it: execute never
\* steps over a service that nobody has seen fail.
NoServiceSkipped ==
  [][(current' > current /\ checker' = checker /\ lastCheck' = lastCheck
        /\ \E c \in Callers : call[c].pc = "step" /\ call'[c].pc = "turn")
     => /\ current' = current + 1
        /\ \E c \in Callers : call[c].pc = "step" /\ current \in call[c].tried]_vars

\* The health thread never hands the work to a service that does not report
\* itself well, in either direction.
HandedToHealthy ==
  [][(current' # current /\ checker # checker') \/ (lastCheck' # lastCheck /\ current' # current)
     => Healthy(current')]_vars

-----------------------------------------------------------------------------
(* Liveness: the callers' threads run, the health thread wakes at every    *)
(* interval, and time passes.                                              *)

Fairness ==
  /\ \A c \in Callers : WF_vars(CallStep(c))
  /\ WF_vars(AttemptDemotion) /\ WF_vars(AttemptUpgrade) /\ WF_vars(Cool)

FairSpec == Spec /\ Fairness

Well == {s \in Services : Answers(s)}

\* Every call comes to an end, whatever the services and the health thread
\* do beside it: the 2 * n turns bound the loop that the set of services
\* tried does not.
CallsEnd == \A c \in Callers : (call[c].pc # "idle") ~> (call[c].pc = "idle")

\* Once the services stop changing, and unless one of them lies about its
\* health or raises from its probe, the work settles on the preferred
\* service among those that work, as long as the thread is not shut down.
SettlesOnBest ==
  (<>[](checker # "stopped" /\ \A s \in Services : mood[s] \in {"well", "ill"}))
    => <>[](Well # {} => current = Min(Well))
=============================================================================
