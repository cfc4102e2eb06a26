-------------------------- MODULE Failover_proofs --------------------------
(***************************************************************************)
(* Proofs about Failover, for any number of callers and services.          *)
(*                                                                         *)
(* That a call is dropped at the bottom of the list rests on a count of    *)
(* the turns it has spent.  The work moves down at least one place for     *)
(* every turn a call spends, so with no upgrade beside it the call has     *)
(* spent fewer turns than there are services above the active one.  One    *)
(* upgrade can give back Last - 1 places at the most, so the call cannot   *)
(* reach 2 * Last turns without having asked the last service.             *)
(***************************************************************************)
EXTENDS Failover, FiniteSetTheorems, WellFoundedInduction, TLAPS

Used(k) == Turns - k.turns

\* The bound on the turns a call has spent, by the number of upgrades that
\* passed it.
NoRaise(k) ==
  /\ k.pc = "turn" => Used(k) <= current - 1
  /\ k.pc \in {"ask", "step"} => k.index <= current /\ Used(k) <= k.index

OneRaise(k) ==
  /\ k.pc = "turn" => Used(k) <= (Last - 1) + (current - 1)
  /\ k.pc \in {"ask", "step"} =>
       \/ Used(k) <= Last - 1
       \/ k.index <= current /\ Used(k) <= (Last - 1) + k.index

CallInv(k) ==
  /\ k.pc \in {"ask", "step"} => k.index \in k.tried
  /\ k.raised = 0 => NoRaise(k)
  /\ k.raised = 1 /\ Last \notin k.tried => OneRaise(k)
  /\ k.pc = "drop" => Last \in k.tried \/ k.raised >= 2

IInv == TypeOK /\ \A c \in Callers : CallInv(call[c])

-----------------------------------------------------------------------------
(* Facts about the operators the model is built from. *)

\* The least element DemoteTo, UpgradeTo and NoteRaise choose exists.
LEMMA LeastElement ==
  ASSUME NEW S, S \subseteq Nat, S # {}
  PROVE  Min(S) \in S /\ \A y \in S : Min(S) <= y
<1> DEFINE R == {ss \in Nat \X Nat : ss[1] < ss[2]}
<1>1. R = OpToRel(<, Nat)
  BY Zenon DEF OpToRel
<1>2. IsWellFoundedOn(R, Nat)
  BY <1>1, NatLessThanWellFounded, Zenon
<1> HIDE DEF R
<1>3. PICK x \in S : \A y \in S : ~ (<<y, x>> \in R)
  BY <1>2, WFMin, Zenon
<1>4. ASSUME NEW y \in S
      PROVE  x <= y
  <2>1. <<y, x>> \in Nat \X Nat /\ <<y, x>>[1] = y /\ <<y, x>>[2] = x
    OBVIOUS
  <2>2. y < x => <<y, x>> \in R
    BY <2>1, Zenon DEF R
  <2>3. QED
    BY <2>2, <1>3
<1>5. QED
  BY <1>4 DEF Min

\* A demotion hands the work to a service further down that reports itself
\* well, or leaves it where it is.
LEMMA DemotesDown ==
  ASSUME TypeOK
  PROVE  /\ DemoteTo \in current .. Last
         /\ DemoteTo # current => Healthy(DemoteTo)
<1>1. Below \subseteq Nat /\ \A s \in Below : s \in current .. Last /\ Healthy(s)
  BY LastAssumption DEF TypeOK, CallState, Below, Services
<1>2. CASE Below # {}
  BY <1>1, <1>2, LeastElement DEF DemoteTo
<1>3. CASE Below = {}
  BY <1>3, LastAssumption DEF DemoteTo, TypeOK, CallState, Services
<1>4. QED
  BY <1>2, <1>3

\* An upgrade hands it to one further up that reports itself well.
LEMMA UpgradesUp ==
  ASSUME TypeOK
  PROVE  /\ UpgradeTo \in 1 .. current
         /\ UpgradeTo # current => Healthy(UpgradeTo)
<1>1. Above \subseteq Nat /\ \A s \in Above : s \in 1 .. current /\ Healthy(s)
  BY LastAssumption DEF TypeOK, CallState, Above, Services
<1>2. CASE Above # {}
  BY <1>1, <1>2, LeastElement DEF UpgradeTo
<1>3. CASE Above = {}
  BY <1>3, LastAssumption DEF UpgradeTo, TypeOK, CallState, Services
<1>4. QED
  BY <1>2, <1>3

\* A call that has tried Last services has tried the last one.
LEMMA AllTried ==
  ASSUME NEW T \in SUBSET Services, ~(Cardinality(T) < Last)
  PROVE  Last \in T
<1>1. IsFiniteSet(Services) /\ Cardinality(Services) = Last
  BY LastAssumption, FS_Interval DEF Services
<1>2. IsFiniteSet(T) /\ Cardinality(T) <= Last /\ (Cardinality(T) = Last => T = Services)
  BY <1>1, FS_Subset
<1>3. Cardinality(T) \in Nat
  BY <1>2, FS_CardinalityType
<1>4. T = Services
  BY <1>2, <1>3, LastAssumption
<1>5. QED
  BY <1>4, LastAssumption DEF Services

\* NoteRaise counts to two.
LEMMA RaiseCounts ==
  ASSUME NEW n \in 0 .. 2
  PROVE  Min({2, n + 1}) = IF n = 0 THEN 1 ELSE 2
<1>1. {2, n + 1} \subseteq Nat /\ {2, n + 1} # {}
  OBVIOUS
<1>2. Min({2, n + 1}) \in {2, n + 1} /\ \A y \in {2, n + 1} : Min({2, n + 1}) <= y
  BY <1>1, LeastElement, Zenon
<1>3. QED
  BY <1>2

-----------------------------------------------------------------------------
(* The invariant is inductive: one lemma per action of Next. *)

\* A call nobody touches keeps its bound while the work stays or moves down.
LEMMA BoundKept ==
  ASSUME TypeOK, current' \in current .. Last, NEW d \in Callers,
         CallInv(call[d]), call'[d] = call[d]
  PROVE  CallInv(call[d])'
<1>1. PICK k : k = call[d] /\ k = call'[d]
  OBVIOUS
<1>2. /\ k.turns \in Nat /\ k.index \in Nat /\ Turns \in Nat
      /\ current \in Nat /\ current' \in Nat /\ current <= current'
  BY <1>1, LastAssumption DEF TypeOK, CallState, Services, Turns
<1>3. CallInv(k) => CallInv(k)'
  BY <1>2, LastAssumption DEF CallInv, NoRaise, OneRaise, Used, Turns
<1>4. QED
  BY <1>1, <1>3 DEF CallInv, NoRaise, OneRaise, Used, Turns

\* The type of a step that writes one caller's locals.
LEMMA CallTyped ==
  ASSUME TypeOK, NEW c \in Callers, NEW k \in CallState, call' = [call EXCEPT ![c] = k],
         current' \in Services, UNCHANGED <<lastCheck, cooled, checker, env>>
  PROVE  TypeOK'
<1>1. call' \in [Callers -> CallState]
  BY Zenon DEF TypeOK
<1>2. QED
  BY <1>1 DEF TypeOK, env

LEMMA ExecuteStep ==
  ASSUME IInv, NEW c \in Callers, Execute(c)
  PROVE  IInv'
<1>1. TypeOK'
  <2>1. PICK k : k = [Idle EXCEPT !.pc = "turn", !.turns = Turns]
    OBVIOUS
  <2>2. k = [pc |-> "turn", index |-> 0, tried |-> {}, turns |-> Turns, raised |-> 0]
    BY <2>1 DEF Idle
  <2>3. Turns \in 0 .. Turns /\ 0 \in 0 .. Last /\ 0 \in 0 .. 2
    BY LastAssumption DEF Turns
  <2>4. k \in CallState
    BY <2>2, <2>3 DEF CallState
  <2>5. call' = [call EXCEPT ![c] = k]
    BY <2>1 DEF Execute
  <2>6. QED
    BY <2>4, <2>5, CallTyped DEF IInv, TypeOK, Execute
<1>2. CallInv(call[c])'
  BY LastAssumption DEF IInv, TypeOK, CallState, Execute, Idle, Turns, Services, CallInv, NoRaise,
     OneRaise, Used
<1>3. ASSUME NEW d \in Callers, d # c
      PROVE  CallInv(call[d])'
  <2>1. call'[d] = call[d] /\ current' \in current .. Last
    BY <1>3, LastAssumption DEF Execute, IInv, TypeOK, CallState, Services
  <2>2. QED
    BY <2>1, BoundKept DEF IInv
<1>4. QED
  BY <1>1, <1>2, <1>3 DEF IInv

LEMMA ReadCurrentStep ==
  ASSUME IInv, NEW c \in Callers, ReadCurrent(c)
  PROVE  IInv'
<1> DEFINE k == call[c]
<1>0. /\ k.pc = "turn" /\ k.turns \in 1 .. Turns /\ k.tried \in SUBSET Services
      /\ k.raised \in 0 .. 2 /\ current \in 1 .. Last
      /\ call'[c] = [k EXCEPT !.turns = k.turns - 1, !.index = current,
                              !.tried = k.tried \cup {current},
                              !.pc = IF current \in k.tried THEN "step" ELSE "ask"]
  BY LastAssumption DEF IInv, TypeOK, CallState, ReadCurrent, MoreTurns, Turns, Services
<1>1. TypeOK'
  <2>0. /\ k.turns - 1 \in 0 .. Turns /\ current \in 0 .. Last
        /\ k.tried \cup {current} \in SUBSET Services
        /\ (IF current \in k.tried THEN "step" ELSE "ask")
             \in {"idle", "turn", "ask", "step", "drop"}
    BY <1>0, LastAssumption DEF Services, Turns
  <2>1. call'[c] \in CallState
    <3>1. PICK p, t, u : /\ p = IF current \in k.tried THEN "step" ELSE "ask"
                         /\ t = k.turns - 1 /\ u = k.tried \cup {current}
      OBVIOUS
    <3>2. call'[c] = [k EXCEPT !.turns = t, !.index = current, !.tried = u, !.pc = p]
      BY <3>1, <1>0, Zenon
    <3>3. k \in CallState
      BY DEF IInv, TypeOK
    <3>4. QED
      BY <3>1, <3>2, <3>3, <2>0 DEF CallState
  <2>2. call' = [call EXCEPT ![c] = call'[c]]
    BY DEF ReadCurrent, IInv, TypeOK
  <2>3. QED
    BY <2>1, <2>2, CallTyped DEF IInv, TypeOK, ReadCurrent
<1>2. /\ call'[c].pc \in {"step", "ask"} /\ call'[c].index = current
      /\ call'[c].turns = k.turns - 1 /\ call'[c].tried = k.tried \cup {current}
      /\ call'[c].raised = k.raised /\ current' = current
  BY <1>0, LastAssumption DEF ReadCurrent, IInv, TypeOK, CallState
<1>3. CallInv(call[c])'
  BY <1>0, <1>2, LastAssumption DEF IInv, CallInv, NoRaise, OneRaise, Used, Turns
<1>4. ASSUME NEW d \in Callers, d # c
      PROVE  CallInv(call[d])'
  <2>1. call'[d] = call[d] /\ current' \in current .. Last
    BY <1>4, <1>0, LastAssumption DEF ReadCurrent, IInv, TypeOK, CallState, Services
  <2>2. QED
    BY <2>1, BoundKept DEF IInv
<1>5. QED
  BY <1>1, <1>3, <1>4 DEF IInv

LEMMA AskStep ==
  ASSUME IInv, NEW c \in Callers, Ask(c)
  PROVE  IInv'
<1>1. TypeOK'
  <2>1. PICK k : k = IF Answers(call[c].index) THEN Idle ELSE [call[c] EXCEPT !.pc = "step"]
    OBVIOUS
  <2>2. k \in CallState
    BY <2>1, LastAssumption DEF IInv, TypeOK, CallState, Idle, Turns
  <2>3. call' = [call EXCEPT ![c] = k]
    BY <2>1 DEF Ask
  <2>4. QED
    BY <2>2, <2>3, CallTyped DEF IInv, TypeOK, Ask
<1>2. CallInv(call[c])'
  BY LastAssumption DEF IInv, TypeOK, CallState, Ask, Idle, Turns, Services, CallInv, NoRaise,
     OneRaise, Used
<1>3. ASSUME NEW d \in Callers, d # c
      PROVE  CallInv(call[d])'
  <2>1. call'[d] = call[d] /\ current' \in current .. Last
    BY <1>3, LastAssumption DEF Ask, IInv, TypeOK, CallState, Services
  <2>2. QED
    BY <2>1, BoundKept DEF IInv
<1>4. QED
  BY <1>1, <1>2, <1>3 DEF IInv

\* A turn spent on a service that was passed meanwhile has moved down as
\* far as one that moves the work itself.
LEMMA StepDownStep ==
  ASSUME IInv, NEW c \in Callers, StepDown(c)
  PROVE  IInv'
<1>0. /\ call[c].pc = "step" /\ call[c].index \in 0 .. Last /\ call[c].turns \in 0 .. Turns
      /\ call[c].tried \in SUBSET Services /\ call[c].raised \in 0 .. 2
      /\ current \in 1 .. Last /\ call[c].index \in call[c].tried
  BY LastAssumption DEF IInv, TypeOK, CallState, StepDown, CallInv, Services
<1>1. TypeOK'
  <2>1. PICK p \in {"turn", "drop"} : call' = [call EXCEPT ![c].pc = p]
    BY DEF StepDown
  <2>2. [call[c] EXCEPT !.pc = p] \in CallState
    BY <2>1 DEF IInv, TypeOK, CallState
  <2>3. current' \in Services
    BY <1>0, LastAssumption DEF StepDown, Services
  <2>4. QED
    BY <2>1, <2>2, <2>3, CallTyped DEF IInv, StepDown
<1>2. CallInv(call[c])'
  <2>1. /\ call'[c].index = call[c].index /\ call'[c].turns = call[c].turns
        /\ call'[c].tried = call[c].tried /\ call'[c].raised = call[c].raised
    BY DEF IInv, TypeOK, CallState, StepDown
  <2>2. CASE ~StillActive(c)
    <3>1. call'[c].pc = "turn" /\ current' = current /\ call[c].index # current
      BY <2>2 DEF IInv, TypeOK, CallState, StepDown, StillActive
    <3>2. QED
      BY <1>0, <2>1, <3>1, LastAssumption
      DEF IInv, CallInv, NoRaise, OneRaise, Used, Turns, Services
  <2>3. CASE StillActive(c) /\ current < Last
    <3>1. call'[c].pc = "turn" /\ current' = current + 1 /\ call[c].index = current
      BY <2>3, <1>0, LastAssumption DEF IInv, TypeOK, CallState, StepDown, StillActive
    <3>2. QED
      BY <1>0, <2>1, <3>1, LastAssumption
      DEF IInv, CallInv, NoRaise, OneRaise, Used, Turns, Services
  <2>4. CASE StillActive(c) /\ current >= Last
    <3>1. call'[c].pc = "drop" /\ call[c].index = current /\ current = Last
      BY <2>4, <1>0, LastAssumption DEF IInv, TypeOK, CallState, StepDown, StillActive
    <3>2. QED
      BY <1>0, <2>1, <3>1 DEF CallInv, NoRaise, OneRaise
  <2>5. QED
    BY <2>2, <2>3, <2>4, <1>0, LastAssumption
<1>3. ASSUME NEW d \in Callers, d # c
      PROVE  CallInv(call[d])'
  <2>1. call'[d] = call[d] /\ current' \in current .. Last
    BY <1>3, <1>0, LastAssumption DEF StepDown, IInv, TypeOK, CallState
  <2>2. QED
    BY <2>1, BoundKept DEF IInv
<1>4. QED
  BY <1>1, <1>2, <1>3 DEF IInv

\* The loop ends on the count of services tried; on the count of turns it
\* ends only after two upgrades, or once the last service has been asked.
LEMMA LoopEndsStep ==
  ASSUME IInv, NEW c \in Callers, LoopEnds(c)
  PROVE  IInv'
<1>0. /\ call[c].pc = "turn" /\ call[c].turns \in 0 .. Turns
      /\ call[c].tried \in SUBSET Services /\ call[c].raised \in 0 .. 2
      /\ current \in 1 .. Last /\ ~MoreTurns(call[c])
  BY LastAssumption DEF IInv, TypeOK, CallState, LoopEnds, Services
<1>1. TypeOK'
  BY LastAssumption DEF IInv, TypeOK, CallState, LoopEnds, Turns, env, Services
<1>2. Last \in call[c].tried \/ call[c].raised >= 2
  <2>1. CASE ~(Cardinality(call[c].tried) < Last)
    BY <2>1, <1>0, AllTried
  <2>2. CASE ~(call[c].turns > 0)
    BY <2>2, <1>0, LastAssumption DEF IInv, CallInv, NoRaise, OneRaise, Used, Turns
  <2>3. QED
    BY <2>1, <2>2, <1>0 DEF MoreTurns
<1>3. CallInv(call[c])'
  <2>1. /\ call'[c].tried = call[c].tried /\ call'[c].raised = call[c].raised
        /\ call'[c].pc = "drop"
    BY DEF IInv, TypeOK, CallState, LoopEnds
  <2>2. QED
    BY <2>1, <1>2 DEF CallInv, NoRaise, OneRaise
<1>4. ASSUME NEW d \in Callers, d # c
      PROVE  CallInv(call[d])'
  <2>1. call'[d] = call[d] /\ current' \in current .. Last
    BY <1>4, <1>0, LastAssumption DEF LoopEnds, IInv, TypeOK, CallState
  <2>2. QED
    BY <2>1, BoundKept DEF IInv
<1>5. QED
  BY <1>1, <1>3, <1>4 DEF IInv

LEMMA DropStep ==
  ASSUME IInv, NEW c \in Callers, Drop(c)
  PROVE  IInv'
<1>1. TypeOK'
  BY LastAssumption DEF IInv, TypeOK, CallState, Drop, Idle, Turns, env, Services
<1>2. CallInv(call[c])'
  BY LastAssumption DEF IInv, TypeOK, CallState, Drop, Idle, Turns, Services, CallInv, NoRaise,
     OneRaise, Used
<1>3. ASSUME NEW d \in Callers, d # c
      PROVE  CallInv(call[d])'
  <2>1. call'[d] = call[d] /\ current' \in current .. Last
    BY <1>3, LastAssumption DEF Drop, IInv, TypeOK, CallState, Services
  <2>2. QED
    BY <2>1, BoundKept DEF IInv
<1>4. QED
  BY <1>1, <1>2, <1>3 DEF IInv

LEMMA AttemptDemotionStep ==
  ASSUME IInv, AttemptDemotion
  PROVE  IInv'
<1>1. current' \in current .. Last /\ current' \in Services
  <2>1. DemoteTo \in current .. Last
    BY DemotesDown DEF IInv
  <2>2. current \in 1 .. Last
    BY DEF IInv, TypeOK, Services
  <2>3. current' = current \/ current' = DemoteTo
    BY DEF AttemptDemotion
  <2>4. QED
    BY <2>1, <2>2, <2>3, LastAssumption DEF Services
<1>2. TypeOK'
  BY <1>1 DEF IInv, TypeOK, AttemptDemotion, CheckOutcome, env
<1>3. ASSUME NEW d \in Callers
      PROVE  CallInv(call[d])'
  <2>1. call'[d] = call[d]
    BY DEF AttemptDemotion
  <2>2. QED
    BY <1>1, <2>1, BoundKept DEF IInv
<1>4. QED
  BY <1>2, <1>3 DEF IInv

\* An upgrade costs a call the places the work moves up, Last - 1 at the
\* most; the call counts it.
LEMMA AttemptUpgradeStep ==
  ASSUME IInv, AttemptUpgrade
  PROVE  IInv'
<1>1. CASE current' = current /\ call' = call
  <2>1. TypeOK'
    BY <1>1 DEF IInv, TypeOK, AttemptUpgrade, CheckOutcome, env
  <2>2. ASSUME NEW d \in Callers
        PROVE  CallInv(call[d])'
    BY <1>1, BoundKept, LastAssumption DEF IInv, TypeOK, Services
  <2>3. QED
    BY <2>1, <2>2 DEF IInv
<1>2. CASE current' = current /\ call' = NoteRaise(FALSE)
  <2>1. call' = call
    BY <1>2 DEF NoteRaise, IInv, TypeOK
  <2>2. QED
    BY <1>1, <1>2, <2>1
<1>3. CASE current' # current /\ call' = NoteRaise(TRUE)
  <2>1. current' \in 1 .. current /\ current' \in 1 .. Last /\ current \in 1 .. Last
    <3>1. UpgradeTo \in 1 .. current
      BY UpgradesUp DEF IInv
    <3>2. current \in 1 .. Last /\ current' = UpgradeTo
      BY <1>3 DEF AttemptUpgrade, IInv, TypeOK, Services
    <3>3. QED
      BY <3>1, <3>2, LastAssumption
  <2>2. ASSUME NEW d \in Callers
        PROVE  call'[d] \in CallState /\ CallInv(call[d])'
    <3>1. CASE call[d].pc = "idle"
      <4>1. call'[d] = call[d]
        BY <1>3, <3>1 DEF NoteRaise
      <4>2. QED
        BY <4>1, <3>1 DEF IInv, TypeOK, CallInv, NoRaise, OneRaise
    <3>2. CASE call[d].pc # "idle"
      <4>1. PICK k, r : /\ k = call[d] /\ r = Min({2, k.raised + 1})
                        /\ call'[d] = [k EXCEPT !.raised = r]
        BY <1>3, <3>2 DEF NoteRaise
      <4>2. k \in CallState /\ CallInv(k)
        BY <4>1 DEF IInv, TypeOK
      <4>3. r = IF k.raised = 0 THEN 1 ELSE 2
        BY <4>1, <4>2, RaiseCounts DEF CallState
      <4>4. call'[d] \in CallState
        BY <4>1, <4>2, <4>3 DEF CallState
      <4>5. /\ call'[d].pc = k.pc /\ call'[d].index = k.index /\ call'[d].turns = k.turns
            /\ call'[d].tried = k.tried /\ call'[d].raised = r
        BY <4>1, <4>2 DEF CallState
      <4>6. CASE k.raised = 0
        BY <4>2, <4>3, <4>4, <4>5, <4>6, <2>1, LastAssumption
        DEF CallInv, NoRaise, OneRaise, Used, Turns, CallState, Services
      <4>7. CASE k.raised # 0
        BY <4>2, <4>3, <4>4, <4>5, <4>7 DEF CallInv, NoRaise, OneRaise, CallState
      <4>8. QED
        BY <4>4, <4>6, <4>7
    <3>3. QED
      BY <3>1, <3>2
  <2>3. call' \in [Callers -> CallState]
    BY <1>3, <2>2 DEF NoteRaise
  <2>4. TypeOK'
    BY <2>1, <2>3 DEF IInv, TypeOK, AttemptUpgrade, CheckOutcome, env, Services
  <2>5. QED
    BY <2>2, <2>4 DEF IInv
<1>4. QED
  BY <1>1, <1>2, <1>3 DEF AttemptUpgrade

\* The clock, the services and the end of the thread touch no call.
LEMMA OutsideStep ==
  ASSUME IInv, Shutdown \/ Cool \/ ChangeMood
  PROVE  IInv'
<1>1. current' = current /\ call' = call
  BY DEF Shutdown, Cool, ChangeMood
<1>2. mood' \in [Services -> Moods] /\ moods' \in 0 .. MaxMoods
  BY BoundAssumption DEF IInv, TypeOK, Shutdown, Cool, ChangeMood, env
<1>3. TypeOK'
  BY <1>1, <1>2 DEF IInv, TypeOK, Shutdown, Cool, ChangeMood
<1>4. ASSUME NEW d \in Callers
      PROVE  CallInv(call[d])'
  BY <1>1, BoundKept, LastAssumption DEF IInv, TypeOK, Services
<1>5. QED
  BY <1>3, <1>4 DEF IInv

LEMMA InitHolds == Init => IInv
<1> SUFFICES ASSUME Init PROVE IInv
  OBVIOUS
<1>1. 0 \in 0 .. Turns /\ 0 \in 0 .. Last /\ 1 \in Services /\ 0 \in 0 .. MaxMoods
  BY LastAssumption, BoundAssumption DEF Turns, Services
<1>2. Idle \in CallState
  BY <1>1 DEF Idle, CallState
<1>3. TypeOK
  BY <1>1, <1>2 DEF Init, TypeOK, CheckOutcome, Moods
<1>4. \A c \in Callers : CallInv(call[c])
  BY DEF Init, Idle, CallInv, NoRaise, OneRaise
<1>5. QED
  BY <1>3, <1>4 DEF IInv

LEMMA NextHolds == IInv /\ [Next]_vars => IInv'
<1> SUFFICES ASSUME IInv, [Next]_vars PROVE IInv'
  OBVIOUS
<1>1. CASE UNCHANGED vars
  BY <1>1 DEF vars, env, IInv, TypeOK, CallInv, NoRaise, OneRaise, Used
<1>2. ASSUME NEW c \in Callers, Execute(c) \/ CallStep(c)
      PROVE  IInv'
  BY <1>2, ExecuteStep, ReadCurrentStep, AskStep, StepDownStep, LoopEndsStep, DropStep
  DEF CallStep
<1>3. QED
  BY <1>1, <1>2, AttemptDemotionStep, AttemptUpgradeStep, OutsideStep DEF Next

-----------------------------------------------------------------------------
(* Theorems *)

\* The bounds on the turns spent hold in every state of execute and the
\* health thread.
THEOREM Inductive == Spec => []IInv
<1>1. QED
  BY InitHolds, NextHolds, PTL DEF Spec

\* The active index stays in the list, and a caller's locals are of the type
\* execute gives them.
THEOREM TypeCorrect == Spec => []TypeOK
<1>1. IInv => TypeOK
  BY DEF IInv
<1>2. QED
  BY <1>1, Inductive, PTL

\* execute drops a call only after the last service failed it, or after two
\* upgrades of the health thread beside the call.
THEOREM LastServiceAsked == Spec => []DroppedAtTheBottom
<1>1. IInv => DroppedAtTheBottom
  BY DEF IInv, CallInv, DroppedAtTheBottom
<1>2. QED
  BY <1>1, Inductive, PTL

\* execute moves the work one place down, from a service its caller saw fail.
THEOREM OneStepDown == Spec => NoServiceSkipped
<1> DEFINE A ==
      (current' > current /\ checker' = checker /\ lastCheck' = lastCheck
         /\ \E c \in Callers : call[c].pc = "step" /\ call'[c].pc = "turn")
      => /\ current' = current + 1
         /\ \E c \in Callers : call[c].pc = "step" /\ current \in call[c].tried
<1>1. IInv /\ [Next]_vars => [A]_vars
  <2> SUFFICES ASSUME IInv, Next, current' > current,
                      NEW c \in Callers, call[c].pc = "step", call'[c].pc = "turn"
               PROVE  /\ current' = current + 1
                      /\ \E d \in Callers : call[d].pc = "step" /\ current \in call[d].tried
    BY DEF vars
  <2>0. current \in Nat
    BY LastAssumption DEF IInv, TypeOK, Services
  <2>1. ASSUME NEW d \in Callers, StepDown(d)
        PROVE  /\ current' = current + 1
               /\ \E e \in Callers : call[e].pc = "step" /\ current \in call[e].tried
    <3>1. current' = current + 1 /\ StillActive(d) /\ call[d].pc = "step"
      BY <2>0, <2>1 DEF StepDown
    <3>2. current \in call[d].tried
      BY <3>1 DEF StillActive, IInv, CallInv
    <3>3. QED
      BY <3>1, <3>2
  <2>2. ASSUME NEW d \in Callers, Execute(d) \/ ReadCurrent(d) \/ Ask(d) \/ LoopEnds(d) \/ Drop(d)
        PROVE  FALSE
    BY <2>0, <2>2 DEF Execute, ReadCurrent, Ask, LoopEnds, Drop
  <2>3. ASSUME AttemptDemotion \/ Shutdown \/ Cool \/ ChangeMood
        PROVE  FALSE
    BY <2>3 DEF AttemptDemotion, Shutdown, Cool, ChangeMood
  <2>4. ASSUME AttemptUpgrade
        PROVE  FALSE
    <3>1. UpgradeTo \in 1 .. current
      BY UpgradesUp DEF IInv
    <3>2. QED
      BY <2>0, <2>4, <3>1 DEF AttemptUpgrade
  <2>5. QED
    BY <2>1, <2>2, <2>3, <2>4 DEF Next, CallStep
<1>2. QED
  BY <1>1, Inductive, PTL DEF Spec, NoServiceSkipped

\* _attempt_demotion and _attempt_upgrade hand the work only to a service
\* whose probe answered that it is well.
THEOREM HealthyTakesOver == Spec => HandedToHealthy
<1> DEFINE A ==
      (current' # current /\ checker # checker') \/ (lastCheck' # lastCheck /\ current' # current)
      => Healthy(current')
<1>1. IInv /\ [Next]_vars => [A]_vars
  <2> SUFFICES ASSUME IInv, Next, current' # current,
                      checker # checker' \/ lastCheck' # lastCheck
               PROVE  Healthy(current')
    BY DEF vars
  <2>1. ASSUME NEW d \in Callers, Execute(d) \/ CallStep(d)
        PROVE  FALSE
    BY <2>1 DEF CallStep, Execute, ReadCurrent, Ask, StepDown, LoopEnds, Drop
  <2>2. CASE AttemptDemotion
    <3>1. current' = DemoteTo
      BY <2>2 DEF AttemptDemotion
    <3>2. QED
      BY <3>1, DemotesDown DEF IInv, Healthy
  <2>3. CASE AttemptUpgrade
    <3>1. current' = UpgradeTo
      BY <2>3 DEF AttemptUpgrade
    <3>2. QED
      BY <3>1, UpgradesUp DEF IInv, Healthy
  <2>4. ASSUME Shutdown \/ Cool \/ ChangeMood
        PROVE  FALSE
    BY <2>4 DEF Shutdown, Cool, ChangeMood
  <2>5. QED
    BY <2>1, <2>2, <2>3, <2>4 DEF Next
<1>2. QED
  BY <1>1, Inductive, PTL DEF Spec, HandedToHealthy

=============================================================================
