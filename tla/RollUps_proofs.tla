--------------------------- MODULE RollUps_proofs ---------------------------
(***************************************************************************)
(* Proofs about RollUps, for any number of links or kinds of event, of     *)
(* handlers and of roll-ups that overlap, and any retention.               *)
(*                                                                         *)
(* The day totals are exact because a day that some roll-up has left       *)
(* behind has nothing to fold any more: for every key it has a day row, or *)
(* no rows at all, unless a row joined it late.  A roll-up between its     *)
(* count and its commit carries the missing day rows itself.               *)
(***************************************************************************)
EXTENDS RollUps, WellFoundedInduction, TLAPS

Entry == [key : Keys, day : Days, total : Nat \ {0}]
Progress ==
  [at : {"idle", "killed", "bound", "group", "write", "commit", "sweep"},
   today : Days, from : 0 .. (LastDay + 1), rows : SUBSET Entry]

Shape ==
  /\ today \in Days /\ linked \in SUBSET Keys /\ late \in SUBSET Days
  /\ raw \in [Keys -> [Days -> Nat]] /\ happened \in [Keys -> [Days -> Nat]]
  /\ folded \in [Keys -> [Days -> Nat \cup {NoTotal}]]
  /\ writing \in [Writers -> [key : Keys, day : Days] \cup {NoRow}]
  /\ run \in [Runners -> Progress]

\* One key's day: counted in full where no row joined it late.
Exact(k, d) ==
  /\ raw[k][d] <= happened[k][d]
  /\ folded[k][d] # NoTotal => folded[k][d] <= happened[k][d]
  /\ d \notin late => happened[k][d] = DailyTotal(k, d)

\* Nothing of the day is left to fold.
Settled(k, d) == folded[k][d] = NoTotal => happened[k][d] = 0

\* A day row closes its day and the days before it, for every key.
Closed ==
  \A k \in Keys, e \in Days : folded[k][e] # NoTotal =>
    \A j \in Keys, d \in Days : d <= e /\ d \notin late => Settled(j, d)

\* What a roll-up may rely on at each of its steps.
Sound(x) ==
  /\ x.today <= today
  /\ x.rows # {} => x.at \in {"write", "commit"}
  /\ x.at = "group" =>
       \A k \in Keys, d \in Days : d < x.from /\ d \notin late => Settled(k, d)
  /\ x.at = "sweep" =>
       \A k \in Keys, d \in Days : d < x.today /\ d \notin late => Settled(k, d)
  /\ x.at \in {"write", "commit"} =>
       \A k \in Keys, d \in Days : d < x.today /\ d \notin late =>
         Settled(k, d) \/ \E y \in x.rows : y.key = k /\ y.day = d
  /\ \A y \in x.rows : y.day < x.today
  /\ \A y \in x.rows : y.key \in linked =>
       /\ y.total <= happened[y.key][y.day]
       /\ folded[y.key][y.day] = NoTotal /\ y.day \notin late =>
            y.total = happened[y.key][y.day]
  /\ x.at = "commit" =>
       \A y \in x.rows : y.key \in linked /\ folded[y.key][y.day] = NoTotal

\* Two roll-ups that have written and not committed share no day row.
Apart ==
  \A r, o \in Runners : r # o /\ run[r].at = "commit" /\ run[o].at = "commit" =>
    \A x \in run[r].rows, y \in run[o].rows : x.key # y.key \/ x.day # y.day

IInv ==
  /\ Shape /\ Closed /\ Apart /\ SpanIsWhole
  /\ \A k \in Keys, d \in Days : Exact(k, d)
  /\ \A r \in Runners : Sound(run[r])

-----------------------------------------------------------------------------
(* Steps of one roll-up that leave the tables alone. *)

\* The latest day with a day row exists: the bound is one above it.
LEMMA LatestDay ==
  ASSUME NEW S \in SUBSET Days, S # {}
  PROVE  \E d \in S : \A e \in S : e <= d
<1> DEFINE R == {ss \in Nat \X Nat : ss[1] < ss[2]}
<1> DEFINE T == {n \in Nat : LastDay - n \in S}
<1>1. R = OpToRel(<, Nat)
  BY Zenon DEF OpToRel
<1>2. IsWellFoundedOn(R, Nat)
  BY <1>1, NatLessThanWellFounded, Zenon
<1>3. T \subseteq Nat /\ T # {}
  <2>1. PICK d \in S : d \in 0 .. LastDay
    BY DEF Days
  <2>2. LastDay - d \in Nat /\ LastDay - (LastDay - d) = d
    BY <2>1, LimitsAssumption
  <2>3. LastDay - d \in T
    BY <2>1, <2>2
  <2>4. QED
    BY <2>3
<1>4. PICK n \in T : \A m \in T : ~ (<<m, n>> \in R)
  <2> HIDE DEF R, T
  <2>1. QED
    BY <1>2, <1>3, WFMin, Zenon
<1>5. ASSUME NEW e \in S
      PROVE  e <= LastDay - n
  <2>1. e \in 0 .. LastDay /\ n \in Nat
    BY DEF Days
  <2>2. PICK m : m = LastDay - e
    OBVIOUS
  <2>3. m \in Nat /\ LastDay - m = e
    BY <2>1, <2>2, LimitsAssumption
  <2>4. m \in T
    BY <2>3
  <2>5. <<m, n>> \in Nat \X Nat /\ <<m, n>>[1] = m /\ <<m, n>>[2] = n
    BY <2>1, <2>3
  <2>6. m < n => <<m, n>> \in R
    BY <2>5, Zenon
  <2>7. QED
    BY <1>4, <2>1, <2>2, <2>3, <2>4, <2>6, LimitsAssumption
<1>6. QED
  BY <1>5

LEMMA RunTyped ==
  ASSUME Shape, NEW r \in Runners, NEW x \in Progress, Go(r, x)
  PROVE  /\ run' \in [Runners -> Progress] /\ run'[r] = x
         /\ \A o \in Runners \ {r} : run'[o] = run[o]
BY Zenon DEF Shape, Go

\* The invariant after a step, roll-up by roll-up.
LEMMA SoundAfter ==
  ASSUME Shape', Closed', Apart', SpanIsWhole', \A k \in Keys, d \in Days : Exact(k, d)',
         \A r \in Runners : \E x : x = run'[r] /\ Sound(x)'
  PROVE  IInv'
<1>1. ASSUME NEW r \in Runners
      PROVE  Sound(run[r])'
  <2>1. PICK x : x = run'[r] /\ Sound(x)'
    OBVIOUS
  <2>2. QED
    BY <2>1 DEF Sound
<1>2. QED
  BY <1>1 DEF IInv

LEMMA RunStep ==
  ASSUME IInv, NEW r \in Runners, NEW x \in Progress, Go(r, x), Sound(x),
         UNCHANGED <<today, linked, raw, folded, writing, happened, late>>,
         x.at = "commit" => \A o \in Runners \ {r} : run[o].at = "commit" =>
            \A y \in x.rows, z \in run[o].rows : y.key # z.key \/ y.day # z.day
  PROVE  IInv'
<1>1. /\ run' \in [Runners -> Progress] /\ run'[r] = x
      /\ \A o \in Runners \ {r} : run'[o] = run[o]
  BY RunTyped DEF IInv
<1>2. Shape'
  BY <1>1 DEF IInv, Shape
<1>3. Closed'
  BY DEF IInv, Closed, Settled
<1>4. SpanIsWhole'
  BY DEF IInv, SpanIsWhole
<1>5. \A k \in Keys, d \in Days : Exact(k, d)'
  BY DEF IInv, Exact, DailyTotal
<1>6. Apart'
  BY <1>1 DEF IInv, Apart
<1>7. ASSUME NEW o \in Runners
      PROVE  \E y : y = run'[o] /\ Sound(y)'
  <2>1. PICK y : y = run'[o] /\ Sound(y)
    BY <1>1 DEF IInv
  <2>2. Sound(y)'
    BY <2>1 DEF Sound, Settled
  <2>3. QED
    BY <2>1, <2>2
<1>8. QED
  BY <1>2, <1>3, <1>4, <1>5, <1>6, <1>7, SoundAfter

\* A roll-up that is not running, or has only just begun.
LEMMA RestingSound ==
  ASSUME Shape, NEW x, NEW a \in {"idle", "killed", "bound"}, NEW day \in {0, today},
         x = [at |-> a, today |-> day, from |-> 0, rows |-> {}]
  PROVE  x \in Progress /\ Sound(x) /\ x.at = a
<1>1. day \in Days /\ day <= today /\ 0 \in 0 .. (LastDay + 1)
  BY LimitsAssumption DEF Shape, Days
<1>2. x \in Progress
  BY <1>1 DEF Progress
<1>3. Sound(x)
  BY <1>1 DEF Sound
<1>4. QED
  BY <1>2, <1>3

LEMMA BeginStep ==
  ASSUME IInv, NEW r \in Runners, Begin(r)
  PROVE  IInv'
<1>1. PICK x : x = [at |-> "bound", today |-> today, from |-> 0, rows |-> {}]
  OBVIOUS
<1>2. x \in Progress /\ Sound(x) /\ x.at = "bound"
  BY <1>1, RestingSound DEF IInv
<1>3. Go(r, x)
  BY <1>1 DEF Begin, Holding
<1>4. QED
  BY <1>2, <1>3, RunStep DEF Begin

LEMMA CrashStep ==
  ASSUME IInv, NEW r \in Runners, Crash(r)
  PROVE  IInv'
<1>1. PICK x : x = [at |-> "killed", today |-> 0, from |-> 0, rows |-> {}]
  OBVIOUS
<1>2. x \in Progress /\ Sound(x) /\ x.at = "killed"
  BY <1>1, RestingSound DEF IInv
<1>3. Go(r, x)
  BY <1>1 DEF Crash, Holding
<1>4. QED
  BY <1>2, <1>3, RunStep DEF Crash

\* first_unfolded_day: every day below the bound is settled.
LEMMA ReadBoundStep ==
  ASSUME IInv, NEW r \in Runners, ReadBound(r)
  PROVE  IInv'
<1>1. PICK k, b : k = run[r] /\ b = FirstUnfoldedDay
  OBVIOUS
<1>2. k \in Progress /\ Sound(k) /\ k.at = "bound" /\ k.rows = {}
  BY <1>1 DEF IInv, Shape, ReadBound, Sound
<1>3. /\ b \in 0 .. (LastDay + 1)
      /\ \A d \in Days : d < b => \E j \in Keys, e \in Days : folded[j][e] # NoTotal /\ d <= e
  <2>1. PICK done : done = {d \in Days : \E j \in Keys : folded[j][d] # NoTotal}
    OBVIOUS
  <2>2. CASE done = {}
    <3>1. b = 0
      BY <1>1, <2>1, <2>2 DEF FirstUnfoldedDay
    <3>2. QED
      BY <3>1, LimitsAssumption DEF Days
  <2>3. CASE done # {}
    <3>1. PICK m \in done : \A e \in done : e <= m
      BY <2>1, <2>3, LatestDay
    <3>2. PICK c : c = CHOOSE d \in done : \A e \in done : e <= d
      OBVIOUS
    <3>3. c \in done
      BY <3>1, <3>2
    <3>4. b = 1 + c
      BY <1>1, <2>1, <2>3, <3>2 DEF FirstUnfoldedDay
    <3>5. c \in Days /\ \E j \in Keys : folded[j][c] # NoTotal
      BY <2>1, <3>3
    <3>6. QED
      BY <3>4, <3>5, LimitsAssumption DEF Days
  <2>4. QED
    BY <2>2, <2>3
<1>4. PICK x : x = [k EXCEPT !.at = "group", !.from = b]
  OBVIOUS
<1>5. x \in Progress
  BY <1>2, <1>3, <1>4 DEF Progress
<1>6. x.at = "group" /\ x.from = b /\ x.today = k.today /\ x.rows = {}
  BY <1>2, <1>4 DEF Progress
<1>7. \A j \in Keys, d \in Days : d < b /\ d \notin late => Settled(j, d)
  BY <1>3 DEF IInv, Closed
<1>8. Sound(x)
  BY <1>2, <1>6, <1>7 DEF Sound
<1>9. QED
  BY <1>1, <1>4, <1>5, <1>6, <1>8, RunStep DEF ReadBound

\* fold_days_before's count: what is not settled is in the rows it carries.
LEMMA GroupStep ==
  ASSUME IInv, NEW r \in Runners, Group(r)
  PROVE  IInv'
<1>1. PICK k, G, a : /\ k = run[r] /\ G = Grouped(r)
                     /\ a = IF G = {} THEN "sweep" ELSE "write"
  OBVIOUS
<1>2. k \in Progress /\ Sound(k) /\ k.at = "group" /\ k.today \in Days
  BY <1>1 DEF IInv, Shape, Group, Progress
<1>3. ASSUME NEW y \in G
      PROVE  /\ y \in Entry /\ y.day < k.today /\ y.total = raw[y.key][y.day]
  <2>1. PICK q \in Keys \X Days : /\ raw[q[1]][q[2]] > 0 /\ q[2] < k.today
                                  /\ y = [key |-> q[1], day |-> q[2], total |-> raw[q[1]][q[2]]]
    BY <1>1 DEF Grouped, Finished
  <2>2. q[1] \in Keys /\ q[2] \in Days /\ raw[q[1]][q[2]] \in Nat \ {0}
    BY <2>1 DEF IInv, Shape
  <2>3. QED
    BY <2>1, <2>2 DEF Entry
<1>4. ASSUME NEW j \in Keys, NEW d \in Days, raw[j][d] > 0, d >= k.from, d < k.today
      PROVE  \E y \in G : y.key = j /\ y.day = d
  <2>1. PICK y : y = [key |-> j, day |-> d, total |-> raw[j][d]]
    OBVIOUS
  <2>2. PICK q : q = <<j, d>>
    OBVIOUS
  <2>3. q \in Keys \X Days /\ q[1] = j /\ q[2] = d
    BY <2>2
  <2>4. y \in G
    BY <1>1, <1>4, <2>1, <2>3 DEF Grouped, Finished
  <2>5. QED
    BY <2>1, <2>4
<1>5. ASSUME NEW j \in Keys, NEW d \in Days, d < k.today, d \notin late
      PROVE  Settled(j, d) \/ \E y \in G : y.key = j /\ y.day = d
  <2>1. CASE d < k.from
    BY <1>2, <1>5, <2>1 DEF Sound
  <2>2. CASE d >= k.from /\ raw[j][d] > 0
    BY <1>4, <1>5, <2>2
  <2>3. CASE raw[j][d] = 0
    BY <1>5, <2>3 DEF IInv, Exact, DailyTotal, Settled
  <2>4. d \in Nat /\ k.from \in Nat /\ raw[j][d] \in Nat
    BY <1>2, LimitsAssumption DEF Days, Progress, IInv, Shape
  <2>5. QED
    BY <2>1, <2>2, <2>3, <2>4
<1>6. PICK x : x = [k EXCEPT !.rows = G, !.at = a]
  OBVIOUS
<1>7. x \in Progress
  BY <1>1, <1>2, <1>3, <1>6 DEF Progress
<1>8. x.at = a /\ x.today = k.today /\ x.rows = G
  BY <1>2, <1>6 DEF Progress
<1>9. Sound(x)
  <2>1. x.today <= today
    BY <1>2, <1>8 DEF Sound
  <2>2. ASSUME NEW y \in G
        PROVE  /\ y.total <= happened[y.key][y.day]
               /\ folded[y.key][y.day] = NoTotal /\ y.day \notin late =>
                     y.total = happened[y.key][y.day]
    <3>1. y.key \in Keys /\ y.day \in Days /\ y.total = raw[y.key][y.day]
      BY <1>3 DEF Entry
    <3>2. Exact(y.key, y.day)
      BY <3>1 DEF IInv
    <3>3. QED
      BY <3>1, <3>2 DEF Exact, DailyTotal
  <2>3. QED
    BY <1>1, <1>3, <1>5, <1>8, <2>1, <2>2 DEF Sound
<1>10. Go(r, x)
  BY <1>1, <1>6 DEF Group
<1>11. QED
  BY <1>1, <1>7, <1>8, <1>9, <1>10, RunStep DEF Group

\* The insert: what is refused ends the run, what is not is new and linked.
LEMMA WriteStep ==
  ASSUME IInv, NEW r \in Runners, Write(r)
  PROVE  IInv'
<1>1. PICK k : k = run[r]
  OBVIOUS
<1>2. k \in Progress /\ Sound(k) /\ k.at = "write"
  BY <1>1 DEF IInv, Shape, Write
<1>3. CASE \E y \in k.rows : Refuses(y)
  <2>1. PICK x : x = [at |-> "idle", today |-> 0, from |-> 0, rows |-> {}]
    OBVIOUS
  <2>2. x \in Progress /\ Sound(x) /\ x.at = "idle"
    BY <2>1, RestingSound DEF IInv
  <2>3. Go(r, x)
    BY <1>1, <1>3, <2>1 DEF Write, Resting, Holding
  <2>4. QED
    BY <2>2, <2>3, RunStep DEF Write
<1>4. CASE ~ \E y \in k.rows : Refuses(y)
  <2>1. PICK x : x = [k EXCEPT !.at = "commit"]
    OBVIOUS
  <2>2. x \in Progress /\ x.at = "commit" /\ x.rows = k.rows /\ x.today = k.today
    BY <1>2, <2>1 DEF Progress
  <2>3. \A y \in k.rows : y.key \in linked /\ folded[y.key][y.day] = NoTotal
    BY <1>4 DEF Refuses
  <2>4. Sound(x)
    BY <1>2, <2>2, <2>3 DEF Sound
  <2>5. Go(r, x)
    BY <1>1, <1>4, <2>1 DEF Write
  <2>6. \A o \in Runners \ {r} : run[o].at = "commit" =>
           \A y \in x.rows, z \in run[o].rows : y.key # z.key \/ y.day # z.day
    BY <1>1, <2>2 DEF Write
  <2>7. QED
    BY <2>2, <2>4, <2>5, <2>6, RunStep DEF Write
<1>5. QED
  BY <1>3, <1>4

-----------------------------------------------------------------------------
(* Steps that move the clock or write the tables. *)

\* A row is stamped, a handler gives up, a day passes, or nothing happens.
LEMMA TablesKept ==
  ASSUME IInv, UNCHANGED <<linked, raw, folded, run, happened, late>>,
         today' \in Days, today <= today',
         writing' \in [Writers -> [key : Keys, day : Days] \cup {NoRow}]
  PROVE  IInv'
<1>1. Shape'
  BY DEF IInv, Shape
<1>2. Closed' /\ Apart'
  BY DEF IInv, Closed, Settled, Apart
<1>3. \A k \in Keys, d \in Days : Exact(k, d)'
  BY DEF IInv, Exact, DailyTotal
<1>4. today \in Int /\ today' \in Int /\ Span \in Int /\ \A d \in Days : d \in Int
  BY LimitsAssumption DEF IInv, Shape, Days
<1>5. SpanIsWhole'
  <2>1. SUFFICES ASSUME Retention = 0 \/ Retention >= Span - 1, NEW k \in Keys, NEW d \in Days,
                        d > today' - Span
                 PROVE  raw'[k][d] = happened'[k][d]
    BY DEF SpanIsWhole
  <2>2. d \in Int
    BY <1>4
  <2>3. d > today - Span
    <3>1. PICK a \in Int, b \in Int : a = today /\ b = today'
      BY <1>4
    <3>2. a <= b /\ d > b - Span
      BY <2>1, <3>1
    <3>3. d > a - Span
      BY <1>4, <2>2, <3>2
    <3>4. QED
      BY <3>1, <3>3
  <2>4. raw[k][d] = happened[k][d]
    BY <2>1, <2>3 DEF IInv, SpanIsWhole
  <2>5. QED
    BY <2>4
<1>6. ASSUME NEW r \in Runners
      PROVE  \E x : x = run'[r] /\ Sound(x)'
  <2>1. PICK x : x = run[r]
    OBVIOUS
  <2>2. Sound(x) /\ x.today \in Int
    BY <2>1 DEF IInv, Shape, Progress, Days
  <2>3. x.today <= today'
    BY <1>4, <2>2 DEF Sound
  <2>4. Sound(x)'
    BY <2>2, <2>3 DEF Sound, Settled
  <2>5. QED
    BY <2>1, <2>4
<1>7. QED
  BY <1>1, <1>2, <1>3, <1>5, <1>6, SoundAfter

LEMMA StampStep ==
  ASSUME IInv, NEW w \in Writers, NEW k \in Keys, Stamp(w, k)
  PROVE  IInv'
<1>1. PICK n : n = [key |-> k, day |-> today]
  OBVIOUS
<1>2. n \in [key : Keys, day : Days] \cup {NoRow}
  BY <1>1 DEF IInv, Shape
<1>3. writing' = [writing EXCEPT ![w] = n]
  BY <1>1 DEF Stamp
<1>4. writing' \in [Writers -> [key : Keys, day : Days] \cup {NoRow}]
  BY <1>2, <1>3, Zenon DEF IInv, Shape
<1>5. today <= today' /\ today' \in Days
  BY DEF Stamp, IInv, Shape, Days
<1>6. QED
  BY <1>4, <1>5, TablesKept DEF Stamp

LEMMA NextDayStep ==
  ASSUME IInv, NextDay
  PROVE  IInv'
<1>1. today <= today' /\ today' \in Days
  BY LimitsAssumption DEF NextDay, IInv, Shape, Days
<1>2. QED
  <2>1. UNCHANGED <<linked, raw, folded, run, happened, late>>
    BY DEF NextDay
  <2>2. writing' \in [Writers -> [key : Keys, day : Days] \cup {NoRow}]
    BY DEF NextDay, IInv, Shape
  <2>3. QED
    BY <1>1, <2>1, <2>2, TablesKept

\* A committed row joins a day that no roll-up has left behind, or the day
\* counts as late from then on.
LEMMA RecordStep ==
  ASSUME IInv, NEW w \in Writers, Record(w)
  PROVE  IInv'
<1>1. PICK n, k, d : n = writing[w] /\ k = n.key /\ d = n.day
  OBVIOUS
<1>2. n # NoRow /\ k \in Keys /\ d \in Days
  <2>1. n # NoRow /\ n \in [key : Keys, day : Days] \cup {NoRow}
    BY <1>1 DEF Record, IInv, Shape
  <2>2. QED
    BY <1>1, <2>1
<1>3. writing' \in [Writers -> [key : Keys, day : Days] \cup {NoRow}]
  <2>1. writing' = [writing EXCEPT ![w] = NoRow]
    BY DEF Record
  <2>2. QED
    BY <2>1, Zenon DEF IInv, Shape
<1>4. CASE k \notin linked
  <2>1. UNCHANGED <<today, linked, raw, folded, run, happened, late>>
    BY <1>1, <1>4 DEF Record
  <2>2. today <= today' /\ today' \in Days
    BY <2>1 DEF IInv, Shape, Days
  <2>3. QED
    BY <1>3, <2>1, <2>2, TablesKept
<1>5. CASE k \in linked
  <2>1. /\ raw' = [raw EXCEPT ![k][d] = @ + 1] /\ happened' = [happened EXCEPT ![k][d] = @ + 1]
        /\ late' = (IF ReadAlready(d) THEN late \union {d} ELSE late)
        /\ UNCHANGED <<today, linked, folded, run>>
    BY <1>1, <1>5 DEF Record
  <2>2. /\ raw' \in [Keys -> [Days -> Nat]] /\ happened' \in [Keys -> [Days -> Nat]]
        /\ raw'[k][d] = raw[k][d] + 1 /\ happened'[k][d] = happened[k][d] + 1
        /\ \A j \in Keys, e \in Days : j # k \/ e # d =>
              raw'[j][e] = raw[j][e] /\ happened'[j][e] = happened[j][e]
    BY <1>2, <2>1 DEF IInv, Shape
  <2>3. late \subseteq late' /\ late' \subseteq Days /\ (d \notin late' => ~ReadAlready(d))
    BY <1>2, <2>1 DEF IInv, Shape
  <2>4. Shape'
    BY <1>3, <2>1, <2>2, <2>3 DEF IInv, Shape
  <2>5. ASSUME NEW j \in Keys, NEW e \in Days
        PROVE  Exact(j, e)'
    <3>1. Exact(j, e) /\ raw[j][e] \in Nat /\ happened[j][e] \in Nat
          /\ folded[j][e] \in Int
      BY DEF IInv, Shape, NoTotal
    <3>2. CASE j = k /\ e = d
      <4>1. d \notin late' => folded[j][e] = NoTotal
        BY <2>3, <3>2 DEF ReadAlready
      <4>2. QED
        BY <2>1, <2>2, <2>3, <3>1, <3>2, <4>1 DEF Exact, DailyTotal
    <3>3. CASE j # k \/ e # d
      BY <2>1, <2>2, <2>3, <3>1, <3>3 DEF Exact, DailyTotal
    <3>4. QED
      BY <3>2, <3>3
  <2>6. ASSUME NEW j \in Keys, NEW e \in Days, e # d, Settled(j, e)
        PROVE  Settled(j, e)'
    BY <2>1, <2>2, <2>6 DEF Settled
  <2>7. Closed'
    <3>1. SUFFICES ASSUME NEW i \in Keys, NEW f \in Days, folded'[i][f] # NoTotal,
                          NEW j \in Keys, NEW e \in Days, e <= f, e \notin late'
                   PROVE  Settled(j, e)'
      BY DEF Closed
    <3>2. Settled(j, e)
      BY <3>1, <2>1, <2>3 DEF IInv, Closed
    <3>3. e # d
      BY <3>1, <2>1, <2>3 DEF ReadAlready, Days
    <3>4. QED
      BY <2>6, <3>2, <3>3
  <2>8. Apart'
    BY <2>1 DEF IInv, Apart
  <2>9. SpanIsWhole'
    BY <2>1, <2>2 DEF IInv, SpanIsWhole
  <2>10. ASSUME NEW r \in Runners
         PROVE  \E x : x = run'[r] /\ Sound(x)'
    <3>1. PICK x : x = run[r] /\ x = run'[r]
      BY <2>1
    <3>2. Sound(x) /\ x \in Progress
      BY <3>1 DEF IInv, Shape
    <3>3. d \notin late' =>
             /\ x.at = "group" => ~(d < x.from)
             /\ x.at \in {"write", "commit", "sweep"} => ~(d < x.today)
      BY <2>3, <3>1 DEF ReadAlready
    <3>4. /\ x.today <= today' /\ (x.rows # {} => x.at \in {"write", "commit"})
          /\ \A y \in x.rows : y.day < x.today
          /\ x.at = "commit" => \A y \in x.rows : /\ y.key \in linked'
                                                  /\ folded'[y.key][y.day] = NoTotal
      BY <2>1, <3>2 DEF Sound
    <3>5. ASSUME x.at = "group", NEW j \in Keys, NEW e \in Days, e < x.from, e \notin late'
          PROVE  Settled(j, e)'
      BY <2>3, <2>6, <3>2, <3>3, <3>5 DEF Sound
    <3>6. ASSUME x.at = "sweep", NEW j \in Keys, NEW e \in Days, e < x.today, e \notin late'
          PROVE  Settled(j, e)'
      BY <2>3, <2>6, <3>2, <3>3, <3>6 DEF Sound
    <3>7. ASSUME x.at \in {"write", "commit"}, NEW j \in Keys, NEW e \in Days, e < x.today,
                 e \notin late'
          PROVE  Settled(j, e)' \/ \E y \in x.rows : y.key = j /\ y.day = e
      BY <2>3, <2>6, <3>2, <3>3, <3>7 DEF Sound
    <3>8. ASSUME NEW y \in x.rows, y.key \in linked'
          PROVE  /\ y.total <= happened'[y.key][y.day]
                 /\ folded'[y.key][y.day] = NoTotal /\ y.day \notin late' =>
                      y.total = happened'[y.key][y.day]
      <4>1. /\ y.key \in Keys /\ y.day \in Days /\ y.total \in Nat
            /\ happened[y.key][y.day] \in Nat
        BY <3>2 DEF Progress, Entry, IInv, Shape
      <4>2. /\ y.total <= happened[y.key][y.day]
            /\ folded[y.key][y.day] = NoTotal /\ y.day \notin late =>
                 y.total = happened[y.key][y.day]
        BY <2>1, <3>2, <3>8 DEF Sound
      <4>3. d \notin late' => y.day # d
        BY <3>3, <3>4
      <4>4. CASE y.key = k /\ y.day = d
        BY <2>2, <4>1, <4>2, <4>3, <4>4
      <4>5. CASE y.key # k \/ y.day # d
        BY <2>1, <2>2, <2>3, <4>1, <4>2, <4>5
      <4>6. QED
        BY <4>4, <4>5
    <3>9. Sound(x)'
      BY <3>4, <3>5, <3>6, <3>7, <3>8 DEF Sound
    <3>10. QED
      BY <3>1, <3>9
  <2>11. QED
    BY <2>4, <2>5, <2>7, <2>8, <2>9, <2>10, SoundAfter
<1>6. QED
  BY <1>4, <1>5

\* A link goes with its rows and its day rows; what a roll-up carries of it
\* will be refused.
LEMMA DeleteLinkStep ==
  ASSUME IInv, NEW k \in Keys, DeleteLink(k)
  PROVE  IInv'
<1>1. /\ raw' = [raw EXCEPT ![k] = [d \in Days |-> 0]]
      /\ happened' = [happened EXCEPT ![k] = [d \in Days |-> 0]]
      /\ folded' = [folded EXCEPT ![k] = [d \in Days |-> NoTotal]]
      /\ linked' = linked \ {k} /\ UNCHANGED <<today, writing, run, late>>
      /\ \A r \in Runners : run[r].at = "commit" => \A x \in run[r].rows : x.key # k
  BY DEF DeleteLink
<1>2. /\ \A d \in Days : raw'[k][d] = 0 /\ happened'[k][d] = 0 /\ folded'[k][d] = NoTotal
      /\ \A j \in Keys \ {k}, d \in Days : /\ raw'[j][d] = raw[j][d]
                                           /\ happened'[j][d] = happened[j][d]
                                           /\ folded'[j][d] = folded[j][d]
  BY <1>1 DEF IInv, Shape
<1>3. Shape'
  <2>1. raw' \in [Keys -> [Days -> Nat]] /\ happened' \in [Keys -> [Days -> Nat]]
    BY <1>1 DEF IInv, Shape
  <2>2. folded' \in [Keys -> [Days -> Nat \cup {NoTotal}]]
    BY <1>1 DEF IInv, Shape
  <2>3. QED
    BY <1>1, <2>1, <2>2 DEF IInv, Shape
<1>4. \A j \in Keys, d \in Days : Settled(j, d) => Settled(j, d)'
  BY <1>2 DEF Settled
<1>5. ASSUME NEW j \in Keys, NEW d \in Days
      PROVE  Exact(j, d)'
  <2>1. CASE j = k
    BY <1>2, <2>1 DEF Exact, DailyTotal
  <2>2. CASE j # k
    BY <1>1, <1>2, <2>2 DEF IInv, Exact, DailyTotal
  <2>3. QED
    BY <2>1, <2>2
<1>6. Closed'
  <2>1. SUFFICES ASSUME NEW i \in Keys, NEW f \in Days, folded'[i][f] # NoTotal,
                        NEW j \in Keys, NEW e \in Days, e <= f, e \notin late'
                 PROVE  Settled(j, e)'
    BY DEF Closed
  <2>2. folded[i][f] # NoTotal
    BY <1>2, <2>1
  <2>3. QED
    BY <1>1, <1>4, <2>1, <2>2 DEF IInv, Closed
<1>7. Apart'
  BY <1>1 DEF IInv, Apart
<1>8. SpanIsWhole'
  BY <1>1, <1>2 DEF IInv, SpanIsWhole
<1>9. ASSUME NEW r \in Runners
      PROVE  \E x : x = run'[r] /\ Sound(x)'
  <2>1. PICK x : x = run[r] /\ x = run'[r]
    BY <1>1
  <2>2. Sound(x) /\ x \in Progress
    BY <2>1 DEF IInv, Shape
  <2>3. \A y \in x.rows : y.key \in Keys /\ y.day \in Days
    BY <2>2 DEF Progress, Entry
  <2>4. ASSUME NEW y \in x.rows, y.key \in linked'
        PROVE  /\ y.total <= happened'[y.key][y.day]
               /\ folded'[y.key][y.day] = NoTotal /\ y.day \notin late' =>
                    y.total = happened'[y.key][y.day]
    BY <1>1, <1>2, <2>2, <2>3, <2>4 DEF Sound
  <2>5. x.at = "commit" => \A y \in x.rows : /\ y.key \in linked'
                                             /\ folded'[y.key][y.day] = NoTotal
    BY <1>1, <1>2, <2>1, <2>2, <2>3 DEF Sound
  <2>6. Sound(x)'
    BY <1>1, <1>4, <2>2, <2>4, <2>5 DEF Sound
  <2>7. QED
    BY <2>1, <2>6
<1>10. QED
  BY <1>3, <1>5, <1>6, <1>7, <1>8, <1>9, SoundAfter

\* The day rows a roll-up commits: new ones for the rows it carries.
LEMMA Committed ==
  ASSUME IInv, NEW r \in Runners, Commit(r), NEW k \in Keys, NEW d \in Days
  PROVE  \/ /\ folded'[k][d] = folded[k][d]
            /\ \A y \in run[r].rows : ~(y.key = k /\ y.day = d)
         \/ /\ folded[k][d] = NoTotal
            /\ \E y \in run[r].rows : y.key = k /\ y.day = d /\ folded'[k][d] = y.total
<1>1. folded'[k][d] = IF RowsFor(r, k, d) = {} THEN folded[k][d]
                      ELSE (CHOOSE x \in RowsFor(r, k, d) : TRUE).total
  BY DEF Commit
<1>2. CASE RowsFor(r, k, d) = {}
  BY <1>1, <1>2 DEF RowsFor
<1>3. CASE RowsFor(r, k, d) # {}
  <2>1. PICK y : y = CHOOSE x \in RowsFor(r, k, d) : TRUE
    OBVIOUS
  <2>2. y \in RowsFor(r, k, d)
    BY <1>3, <2>1
  <2>3. y \in run[r].rows /\ y.key = k /\ y.day = d
    BY <2>2 DEF RowsFor
  <2>4. folded'[k][d] = y.total
    BY <1>1, <1>3, <2>1
  <2>5. folded[k][d] = NoTotal
    BY <2>3 DEF IInv, Sound, Commit
  <2>6. QED
    BY <2>3, <2>4, <2>5
<1>4. QED
  BY <1>2, <1>3

LEMMA CommitStep ==
  ASSUME IInv, NEW r \in Runners, Commit(r)
  PROVE  IInv'
<1>1. PICK k, x : k = run[r] /\ x = [k EXCEPT !.at = "sweep", !.rows = {}]
  OBVIOUS
<1>2. k \in Progress /\ Sound(k) /\ k.at = "commit" /\ Go(r, x)
      /\ UNCHANGED <<today, linked, raw, writing, happened, late>>
  BY <1>1 DEF IInv, Shape, Commit
<1>3. x \in Progress /\ x.at = "sweep" /\ x.rows = {} /\ x.today = k.today
  BY <1>1, <1>2 DEF Progress
<1>4. /\ run' \in [Runners -> Progress] /\ run'[r] = x
      /\ \A o \in Runners \ {r} : run'[o] = run[o]
  BY <1>2, <1>3, RunTyped DEF IInv
<1>5. \A y \in k.rows : /\ y.key \in Keys /\ y.day \in Days /\ y.total \in Nat \ {0}
                        /\ y.day < k.today /\ y.key \in linked
                        /\ y.total <= happened[y.key][y.day]
                        /\ y.day \notin late => y.total = happened[y.key][y.day]
  BY <1>2 DEF Sound, Progress, Entry
<1>6. ASSUME NEW j \in Keys, NEW d \in Days
      PROVE  \/ /\ folded'[j][d] = folded[j][d]
                /\ \A y \in k.rows : ~(y.key = j /\ y.day = d)
             \/ /\ folded[j][d] = NoTotal
                /\ \E y \in k.rows : y.key = j /\ y.day = d /\ folded'[j][d] = y.total
  BY <1>1, Committed
<1>7. Shape'
  <2>1. ASSUME NEW j \in Keys, NEW d \in Days
        PROVE  folded'[j][d] \in Nat \cup {NoTotal}
    BY <1>5, <1>6 DEF IInv, Shape
  <2>2. folded' \in [Keys -> [Days -> Nat \cup {NoTotal}]]
    BY <2>1 DEF Commit
  <2>3. QED
    BY <1>2, <1>4, <2>2 DEF IInv, Shape
<1>8. \A y \in k.rows : folded'[y.key][y.day] # NoTotal
  BY <1>5, <1>6 DEF NoTotal
<1>9. \A j \in Keys, d \in Days : Settled(j, d) => Settled(j, d)'
  BY <1>2, <1>5, <1>6 DEF Settled, NoTotal
<1>10. ASSUME NEW j \in Keys, NEW d \in Days, d < k.today, d \notin late
       PROVE  Settled(j, d)'
  <2>1. CASE Settled(j, d)
    BY <1>9, <2>1
  <2>2. CASE \E y \in k.rows : y.key = j /\ y.day = d
    BY <1>8, <2>2 DEF Settled
  <2>3. QED
    BY <1>2, <1>10, <2>1, <2>2 DEF Sound
<1>11. ASSUME NEW j \in Keys, NEW d \in Days
       PROVE  Exact(j, d)'
  <2>1. Exact(j, d)
    BY DEF IInv
  <2>2. CASE folded'[j][d] = folded[j][d]
    BY <1>2, <2>1, <2>2 DEF Exact, DailyTotal
  <2>3. CASE \E y \in k.rows : y.key = j /\ y.day = d /\ folded'[j][d] = y.total
    <3>1. PICK y \in k.rows : y.key = j /\ y.day = d /\ folded'[j][d] = y.total
      BY <2>3
    <3>2. folded'[j][d] <= happened[j][d] /\ (d \notin late => folded'[j][d] = happened[j][d])
      BY <1>5, <3>1
    <3>3. folded'[j][d] # NoTotal
      BY <1>8, <3>1
    <3>4. QED
      BY <1>2, <2>1, <3>2, <3>3 DEF Exact, DailyTotal
  <2>4. QED
    BY <1>6, <2>2, <2>3
<1>12. Closed'
  <2>1. SUFFICES ASSUME NEW i \in Keys, NEW f \in Days, folded'[i][f] # NoTotal,
                        NEW j \in Keys, NEW e \in Days, e <= f, e \notin late'
                 PROVE  Settled(j, e)'
    BY DEF Closed
  <2>2. CASE folded[i][f] # NoTotal
    BY <1>2, <1>9, <2>1, <2>2 DEF IInv, Closed
  <2>3. CASE folded[i][f] = NoTotal
    <3>1. f < k.today
      BY <1>5, <1>6, <2>1, <2>3
    <3>2. e \in Int /\ f \in Int /\ k.today \in Int
      BY <1>2 DEF Days, Progress
    <3>3. e < k.today
      BY <2>1, <3>1, <3>2
    <3>4. QED
      BY <1>2, <1>10, <2>1, <3>3
  <2>4. QED
    BY <2>2, <2>3
<1>13. Apart'
  BY <1>3, <1>4 DEF IInv, Apart
<1>14. SpanIsWhole'
  BY <1>2 DEF IInv, SpanIsWhole
<1>15. ASSUME NEW o \in Runners
       PROVE  \E z : z = run'[o] /\ Sound(z)'
  <2>1. CASE o = r
    <3>1. x.today <= today'
      BY <1>2, <1>3 DEF Sound
    <3>2. Sound(x)'
      BY <1>2, <1>3, <1>10, <3>1 DEF Sound
    <3>3. QED
      BY <1>4, <2>1, <3>2
  <2>2. CASE o # r
    <3>1. PICK z : z = run[o] /\ z = run'[o]
      BY <1>4, <2>2
    <3>2. Sound(z) /\ z \in Progress
      BY <3>1 DEF IInv, Shape
    <3>3. \A y \in z.rows : y.key \in Keys /\ y.day \in Days
      BY <3>2 DEF Progress, Entry
    <3>4. \A j \in Keys, d \in Days : folded'[j][d] = NoTotal => folded[j][d] = NoTotal
      BY <1>6
    <3>5. ASSUME z.at = "commit", NEW y \in z.rows
          PROVE  folded'[y.key][y.day] = NoTotal
      <4>1. folded[y.key][y.day] = NoTotal
        BY <3>2, <3>5 DEF Sound
      <4>2. \A v \in k.rows : ~(v.key = y.key /\ v.day = y.day)
        BY <1>1, <1>2, <2>2, <3>1, <3>5 DEF IInv, Apart
      <4>3. QED
        BY <1>6, <3>3, <4>1, <4>2
    <3>6. ASSUME NEW y \in z.rows, y.key \in linked'
          PROVE  /\ y.total <= happened'[y.key][y.day]
                 /\ folded'[y.key][y.day] = NoTotal /\ y.day \notin late' =>
                      y.total = happened'[y.key][y.day]
      BY <1>2, <3>2, <3>3, <3>4, <3>6 DEF Sound
    <3>7. Sound(z)'
      BY <1>2, <1>9, <3>2, <3>5, <3>6 DEF Sound
    <3>8. QED
      BY <3>1, <3>7
  <2>3. QED
    BY <2>1, <2>2
<1>16. QED
  BY <1>7, <1>11, <1>12, <1>13, <1>14, <1>15, SoundAfter

\* delete_raw_before: the rows that go are of days that are settled, and of
\* days before the span.
LEMMA SweepStep ==
  ASSUME IInv, NEW r \in Runners, Sweep(r)
  PROVE  IInv'
<1>1. PICK k, x : k = run[r] /\ x = [at |-> "idle", today |-> 0, from |-> 0, rows |-> {}]
  OBVIOUS
<1>2. k \in Progress /\ Sound(k) /\ k.at = "sweep" /\ k.today \in Int /\ k.today <= today
  BY <1>1 DEF IInv, Shape, Sweep, Progress, Sound, Days
<1>3. Go(r, x) /\ UNCHANGED <<today, linked, folded, writing, happened, late>>
  BY <1>1 DEF Sweep, Resting, Holding
<1>4. x \in Progress /\ Sound(x) /\ x.at = "idle"
  BY <1>1, RestingSound DEF IInv
<1>5. /\ run' \in [Runners -> Progress] /\ run'[r] = x
      /\ \A o \in Runners \ {r} : run'[o] = run[o]
  BY <1>3, <1>4, RunTyped DEF IInv
<1>6. \A j \in Keys, d \in Days : raw'[j][d] = IF Expired(d, k.today) THEN 0 ELSE raw[j][d]
  BY <1>1 DEF Sweep
<1>7. Shape'
  <2>1. \A j \in Keys, d \in Days : raw'[j][d] \in Nat
    BY <1>6 DEF IInv, Shape
  <2>2. raw' \in [Keys -> [Days -> Nat]]
    BY <2>1 DEF Sweep
  <2>3. QED
    BY <1>3, <1>5, <2>2 DEF IInv, Shape
<1>8. ASSUME NEW d \in Days, Expired(d, k.today)
      PROVE  /\ d < k.today
             /\ Retention = 0 \/ Retention >= Span - 1 => ~(d > today - Span)
  <2>1. /\ d \in Int /\ today \in Int /\ Retention \in Int /\ Span \in Int
        /\ Retention > 0 /\ d < k.today - Retention
    BY <1>8, LimitsAssumption DEF Expired, IInv, Shape, Days
  <2>2. QED
    BY <1>2, <2>1
<1>9. ASSUME NEW j \in Keys, NEW d \in Days
      PROVE  Exact(j, d)'
  <2>1. Exact(j, d) /\ happened[j][d] \in Nat
    BY DEF IInv, Shape
  <2>2. CASE Expired(d, k.today)
    <3>1. d \notin late => Settled(j, d)
      BY <1>2, <1>8, <2>2 DEF Sound
    <3>2. raw'[j][d] = 0
      BY <1>6, <2>2
    <3>3. QED
      BY <1>3, <2>1, <3>1, <3>2 DEF Exact, DailyTotal, Settled
  <2>3. CASE ~Expired(d, k.today)
    BY <1>3, <1>6, <2>1, <2>3 DEF Exact, DailyTotal
  <2>4. QED
    BY <2>2, <2>3
<1>10. SpanIsWhole'
  <2>1. SUFFICES ASSUME Retention = 0 \/ Retention >= Span - 1, NEW j \in Keys, NEW d \in Days,
                        d > today - Span
                 PROVE  raw'[j][d] = happened'[j][d]
    BY <1>3 DEF SpanIsWhole
  <2>2. ~Expired(d, k.today)
    BY <1>8, <2>1
  <2>3. raw[j][d] = happened[j][d]
    BY <2>1 DEF IInv, SpanIsWhole
  <2>4. QED
    BY <1>3, <1>6, <2>2, <2>3
<1>11. Closed' /\ Apart'
  <2>1. Closed'
    BY <1>3 DEF IInv, Closed, Settled
  <2>2. Apart'
    BY <1>4, <1>5 DEF IInv, Apart
  <2>3. QED
    BY <2>1, <2>2
<1>12. ASSUME NEW o \in Runners
       PROVE  \E z : z = run'[o] /\ Sound(z)'
  <2>1. PICK z : z = run'[o] /\ Sound(z)
    BY <1>4, <1>5 DEF IInv
  <2>2. Sound(z)'
    BY <1>3, <2>1 DEF Sound, Settled
  <2>3. QED
    BY <2>1, <2>2
<1>13. QED
  BY <1>7, <1>9, <1>10, <1>11, <1>12, SoundAfter

-----------------------------------------------------------------------------
(* The theorems. *)

LEMMA InitHolds == Init => IInv
<1> SUFFICES ASSUME Init PROVE IInv
  OBVIOUS
<1>1. 0 \in Days
  BY LimitsAssumption DEF Days
<1>2. PICK x : x = [at |-> "idle", today |-> 0, from |-> 0, rows |-> {}]
  OBVIOUS
<1>3. \A r \in Runners : run[r] = x
  BY <1>2 DEF Init, Resting, Holding
<1>4. x \in Progress
  BY <1>1, <1>2, LimitsAssumption DEF Progress
<1>5. Shape
  <2>1. run \in [Runners -> Progress]
    BY <1>3, <1>4 DEF Init
  <2>2. QED
    BY <1>1, <2>1 DEF Init, Shape
<1>6. \A k \in Keys, d \in Days : raw[k][d] = 0 /\ happened[k][d] = 0 /\ folded[k][d] = NoTotal
  BY DEF Init
<1>7. Closed /\ SpanIsWhole /\ \A k \in Keys, d \in Days : Exact(k, d)
  BY <1>6 DEF Closed, SpanIsWhole, Exact, DailyTotal
<1>8. Apart
  BY <1>2, <1>3 DEF Apart
<1>9. Sound(x)
  BY <1>2, <1>5, RestingSound
<1>10. QED
  BY <1>3, <1>5, <1>7, <1>8, <1>9 DEF IInv

LEMMA NextHolds == IInv /\ [Next]_vars => IInv'
<1> SUFFICES ASSUME IInv, [Next]_vars PROVE IInv'
  OBVIOUS
<1>1. ASSUME NEW w \in Writers, Record(w) PROVE IInv'
  BY <1>1, RecordStep
<1>2. ASSUME NEW w \in Writers, NEW k \in Keys, Stamp(w, k) PROVE IInv'
  BY <1>2, StampStep
<1>3. ASSUME NEW k \in Keys, DeleteLink(k) PROVE IInv'
  BY <1>3, DeleteLinkStep
<1>4. ASSUME NEW r \in Runners, Step(r) PROVE IInv'
  BY <1>4, BeginStep, ReadBoundStep, GroupStep, WriteStep, CommitStep, SweepStep DEF Step
<1>5. ASSUME NEW r \in Runners, Crash(r) PROVE IInv'
  BY <1>5, CrashStep
<1>6. CASE NextDay
  BY <1>6, NextDayStep
<1>7. CASE UNCHANGED vars
  <2>1. UNCHANGED <<today, linked, raw, folded, writing, run, happened, late>>
    BY <1>7 DEF vars
  <2>2. today <= today' /\ today' \in Days
    BY <2>1 DEF IInv, Shape, Days
  <2>3. writing' \in [Writers -> [key : Keys, day : Days] \cup {NoRow}]
    BY <2>1 DEF IInv, Shape
  <2>4. QED
    BY <2>1, <2>2, <2>3, TablesKept
<1>8. QED
  BY <1>1, <1>2, <1>3, <1>4, <1>5, <1>6, <1>7 DEF Next

\* The strengthening holds in every state of every run.
THEOREM Inductive == Spec => []IInv
<1>1. Init => IInv
  BY InitHolds
<1>2. IInv /\ [Next]_vars => IInv'
  BY NextHolds
<1>3. QED
  BY <1>1, <1>2, PTL DEF Spec

\* roll_up_visits, roll_up_security_events: however many roll-ups overlap,
\* fail between two of their transactions or are killed, the day-by-day
\* series shows every row of a day once, and all of them unless one was
\* committed after a fold had read its day.
THEOREM SeriesExact == Spec => []DailyTotalsExact
<1>1. IInv => DailyTotalsExact
  <2>1. SUFFICES ASSUME IInv, NEW k \in Keys, NEW d \in Days
                 PROVE  /\ DailyTotal(k, d) <= happened[k][d]
                        /\ d \notin late => DailyTotal(k, d) = happened[k][d]
    BY DEF DailyTotalsExact
  <2>2. Exact(k, d)
    BY <2>1 DEF IInv
  <2>3. QED
    BY <2>2 DEF Exact, DailyTotal
<1>2. Spec => []IInv
  BY Inductive
<1>3. QED
  BY <1>1, <1>2, PTL

\* RollUpVisitsUseCase.execute: with a retention that covers it, no sweep,
\* however old the day it started on, takes a row from the span of the chart
\* that is drawn from raw rows.
THEOREM SpanKept == Spec => []SpanIsWhole
<1>1. IInv => SpanIsWhole
  BY DEF IInv
<1>2. Spec => []IInv
  BY Inductive
<1>3. QED
  BY <1>1, <1>2, PTL

\* The primary key on the day tables: a day row keeps its total until its
\* link is deleted, since a roll-up that carries the same day is made to wait
\* and is then refused.
THEOREM DayRowsKept == Spec => FoldedRowsStay
<1>1. IInv /\ [Next]_vars =>
        [\A k \in Keys, d \in Days :
           (folded[k][d] # NoTotal /\ k \in linked') => folded'[k][d] = folded[k][d]]_vars
  <2>1. SUFFICES ASSUME IInv, [Next]_vars, NEW k \in Keys, NEW d \in Days,
                        folded[k][d] # NoTotal, k \in linked'
                 PROVE  folded'[k][d] = folded[k][d]
    OBVIOUS
  <2>2. ASSUME NEW r \in Runners, Commit(r)
        PROVE  folded'[k][d] = folded[k][d]
    BY <2>1, <2>2, Committed
  <2>3. ASSUME NEW j \in Keys, DeleteLink(j)
        PROVE  folded'[k][d] = folded[k][d]
    BY <2>1, <2>3 DEF DeleteLink, IInv, Shape
  <2>4. CASE UNCHANGED folded
    BY <2>4
  <2>5. (\E r \in Runners : Commit(r)) \/ (\E j \in Keys : DeleteLink(j)) \/ UNCHANGED folded
    BY <2>1 DEF Next, Record, Stamp, Step, Begin, ReadBound, Group, Write, Sweep, Crash,
                NextDay, vars
  <2>6. QED
    BY <2>2, <2>3, <2>4, <2>5
<1>2. Spec => []IInv
  BY Inductive
<1>3. QED
  BY <1>1, <1>2, PTL DEF Spec, FoldedRowsStay
=============================================================================
