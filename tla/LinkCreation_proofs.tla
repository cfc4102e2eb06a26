------------------------ MODULE LinkCreation_proofs ------------------------
(***************************************************************************)
(* Proofs about LinkCreation, for any number of workers, guests, URLs and  *)
(* codes and any limit.                                                    *)
(*                                                                         *)
(* The quota rests on three facts: a guest's request that has links left   *)
(* to create holds the guest's lock until its transaction ends; while it   *)
(* does, what the guest has stored and what the request still means to     *)
(* store fit the limit together; and a transaction holds at most one row   *)
(* for each link it means to store.                                        *)
(***************************************************************************)
EXTENDS LinkCreation, FiniteSetTheorems, WellFoundedInduction, TLAPS

\* Past the count, before the end of the transaction.
Creating == {"pick", "resolve", "insert", "commit"}

\* Code c is a committed link of u for caller who.
LinkOf(c, u, who) == Stored(c) /\ rows[c].url = u /\ rows[c].who = who

\* The groups of a request, each found, to be created or refused.
Sorted(t) ==
  /\ t.pc \notin {"idle", "look", "error"} =>
       /\ GroupsOf(t.list) = DOMAIN t.found \cup t.todo \cup t.refused
       /\ DOMAIN t.found \cap t.todo = {} /\ DOMAIN t.found \cap t.refused = {}
       /\ t.todo \cap t.refused = {}
  /\ t.pc \in {"idle", "look", "error"} =>
       DOMAIN t.found = {} /\ t.todo = {} /\ t.refused = {}
  /\ t.pc \in {"lock", "count"} => t.refused = {}
  /\ t.pc \notin {"idle", "error"} => t.who \in Callers

\* The codes it has chosen, and the ones it has inserted.
Planned(t) ==
  /\ DOMAIN t.plan \subseteq t.todo /\ DOMAIN t.cand \subseteq t.todo
  /\ t.done \subseteq DOMAIN t.plan
  /\ t.pc \notin {"resolve", "insert", "commit", "reply"} =>
       DOMAIN t.plan = {} /\ DOMAIN t.cand = {}
  /\ t.pc = "resolve" => t.done = {} /\ DOMAIN t.salt = DOMAIN t.cand
  /\ t.pc \in {"commit", "reply"} => t.done = DOMAIN t.plan
  /\ \A u \in DOMAIN t.plan : t.plan[u] \in t.occupied
  /\ \A u, v \in DOMAIN t.plan : u # v => t.plan[u] # t.plan[v]

\* A row of an open transaction is one the request has inserted for its
\* caller, and the other way round.
Owned(w, t) ==
  /\ \A c \in Codes : Mine(w, c) =>
       /\ t.pc \in {"insert", "commit"}
       /\ rows[c].who = t.who
       /\ rows[c].url \in t.done /\ t.plan[rows[c].url] = c
  /\ t.pc \in {"insert", "commit"} =>
       \A u \in t.done : Mine(w, t.plan[u]) /\ rows[t.plan[u]].url = u

\* What an answer may name is stored.
Named(t) ==
  /\ \A u \in DOMAIN t.found : LinkOf(t.found[u], u, t.who)
  /\ t.pc = "reply" => \A u \in DOMAIN t.plan : LinkOf(t.plan[u], u, t.who)

Spends(t) == t.who \in Guests /\ t.pc \in Creating /\ t.todo # {}

\* Lock and allowance.
Covered(w, t) ==
  /\ (t.who \in Guests /\ t.pc = "count") \/ Spends(t) => lock[t.who] = w
  /\ Spends(t) => Cardinality(Used(t.who)) + Cardinality(t.todo) <= GuestLimit

Fine(w, t) == Sorted(t) /\ Planned(t) /\ Owned(w, t) /\ Named(t) /\ Covered(w, t)

IInv == TypeOK /\ QuotaHeld /\ \A w \in Workers : Fine(w, task[w])

-----------------------------------------------------------------------------
(* Facts about the operators the model is built from. *)

\* Every non-empty set of naturals has the least element Min chooses.
LEMMA LeastElement ==
  ASSUME NEW S, S \subseteq Nat, S # {}
  PROVE  Min(S) \in S /\ \A y \in S : Min(S) <= y
<1> DEFINE R == {ss \in Nat \X Nat : ss[1] < ss[2]}
<1>1. R = OpToRel(<, Nat)
  BY Zenon DEF OpToRel
<1>2. IsWellFoundedOn(R, Nat)
  BY <1>1, NatLessThanWellFounded, Zenon
<1> HIDE DEF R
<1>3. PICK x \in S : \A y \in S : ~ (<<y, x>> \in R)
  BY <1>2, WFMin, Zenon
<1>4. ASSUME NEW y \in S
      PROVE  x <= y
  <2>1. <<y, x>> \in Nat \X Nat /\ <<y, x>>[1] = y /\ <<y, x>>[2] = x
    OBVIOUS
  <2>2. y < x => <<y, x>> \in R
    BY <2>1, Zenon DEF R
  <2>3. QED
    BY <2>2, <1>3
<1>5. QED
  BY <1>4 DEF Min

\* A URL's place is a position that holds it, so different URLs have
\* different places.
LEMMA PlaceHolds ==
  ASSUME NEW list \in Seq(Urls \cup {Bad}), NEW u \in Range(list)
  PROVE  Place(list, u) \in 1 .. Len(list) /\ list[Place(list, u)] = u
<1> DEFINE S == {i \in DOMAIN list : list[i] = u}
<1>1. S \subseteq Nat /\ S # {} /\ S \subseteq 1 .. Len(list)
  BY DEF Range
<1>2. Min(S) \in S
  BY <1>1, LeastElement
<1>3. QED
  BY <1>1, <1>2 DEF Place

\* The absent row is not a row.
LEMMA NoneIsNoRow == None \notin Rows
BY NoneAssumption DEF Rows

\* The groups of a list are finitely many.
LEMMA GroupsFinite ==
  ASSUME NEW list \in Seq(Urls \cup {Bad}), NEW T \in SUBSET Range(list)
  PROVE  IsFiniteSet(T)
<1> DEFINE f == [u \in T |-> Place(list, u)]
<1>1. f \in [T -> 1 .. Len(list)]
  BY PlaceHolds
<1>2. \A u, v \in T : f[u] = f[v] => u = v
  BY PlaceHolds
<1>3. f \in Injection(T, 1 .. Len(list))
  BY <1>1, <1>2 DEF Injection, IsInjective
<1>4. IsFiniteSet(1 .. Len(list))
  BY FS_Interval
<1>5. QED
  BY <1>3, <1>4, FS_Injection

\* The allowance is never exceeded: there are at most n first groups.
LEMMA FirstFits ==
  ASSUME NEW list \in Seq(Urls \cup {Bad}), NEW T \in SUBSET Range(list), NEW n \in Nat
  PROVE  Cardinality(First(list, T, n)) <= n
<1> DEFINE F == First(list, T, n)
           rank == [u \in F |-> Cardinality(Before(list, T, u))]
<1>0. F \subseteq T /\ \A u \in F : Cardinality(Before(list, T, u)) < n
  BY DEF First
<1>1. ASSUME NEW u \in T
      PROVE  /\ IsFiniteSet(Before(list, T, u))
             /\ Cardinality(Before(list, T, u)) \in Nat
  <2>1. Before(list, T, u) \in SUBSET T
    BY DEF Before
  <2>2. IsFiniteSet(Before(list, T, u))
    BY <2>1, GroupsFinite, FS_Subset
  <2>3. QED
    BY <2>2, FS_CardinalityType
<1>2. ASSUME NEW u \in T, NEW v \in T, Place(list, u) < Place(list, v)
      PROVE  Cardinality(Before(list, T, u)) # Cardinality(Before(list, T, v))
  <2>1. \A x \in T : Place(list, x) \in Nat
    BY PlaceHolds
  <2>2. Before(list, T, u) \in SUBSET Before(list, T, v)
    BY <1>2, <2>1 DEF Before
  <2>3. u \in Before(list, T, v) /\ u \notin Before(list, T, u)
    BY <1>2, <2>1 DEF Before
  <2>4. QED
    BY <1>1, <2>2, <2>3, FS_Subset
<1>3. \A u, v \in F : rank[u] = rank[v] => u = v
  <2> SUFFICES ASSUME NEW u \in F, NEW v \in F, u # v
               PROVE  rank[u] # rank[v]
    OBVIOUS
  <2>1. /\ Place(list, u) \in Nat /\ Place(list, v) \in Nat
        /\ Place(list, u) # Place(list, v)
    BY <1>0, PlaceHolds
  <2>2. Place(list, u) < Place(list, v) \/ Place(list, v) < Place(list, u)
    BY <2>1
  <2>3. QED
    BY <1>0, <1>2, <2>2
<1>4. rank \in [F -> 0 .. (n - 1)]
  BY <1>0, <1>1
<1>5. rank \in Injection(F, 0 .. (n - 1))
  BY <1>3, <1>4 DEF Injection, IsInjective
<1>6. IsFiniteSet(0 .. (n - 1)) /\ Cardinality(0 .. (n - 1)) = n
  <2>1. PICK m \in Int : m = n - 1
    OBVIOUS
  <2>2. IsFiniteSet(0 .. m) /\ Cardinality(0 .. m) = IF 0 > m THEN 0 ELSE m - 0 + 1
    BY FS_Interval
  <2>3. QED
    BY <2>1, <2>2
<1>7. QED
  BY <1>5, <1>6, FS_Injection

\* save_many always has a row to insert next while one is left.
LEMMA NextExists ==
  ASSUME TypeOK, NEW w \in Workers, ToInsert(w) # {}, ToInsert(w) \subseteq Range(task[w].list)
  PROVE  NextUrl(w) \in ToInsert(w)
<1> DEFINE S == {Place(task[w].list, u) : u \in ToInsert(w)}
<1>0. task[w].list \in Seq(Urls \cup {Bad})
  BY DEF TypeOK, Task
<1>1. S \subseteq Nat /\ S # {}
  BY <1>0, PlaceHolds
<1>2. Min(S) \in S /\ \A y \in S : Min(S) <= y
  <2> HIDE DEF S
  <2>1. QED
    BY <1>1, LeastElement
<1>3. PICK u \in ToInsert(w) : Min(S) = Place(task[w].list, u)
  BY <1>2
<1>4. \A v \in ToInsert(w) : Place(task[w].list, u) <= Place(task[w].list, v)
  BY <1>2, <1>3
<1>5. QED
  BY <1>4 DEF NextUrl

\* The links that count against a guest are finitely many.
LEMMA UsedFinite ==
  ASSUME NEW g
  PROVE  IsFiniteSet(Used(g)) /\ Cardinality(Used(g)) \in Nat
<1>1. Used(g) \in SUBSET Codes
  BY DEF Used
<1>2. QED
  BY <1>1, CodesAssumption, FS_Subset, FS_CardinalityType

-----------------------------------------------------------------------------
(* The invariant is inductive.                                             *)

\* The invariant after a step, worker by worker.
LEMMA FineAfter ==
  ASSUME TypeOK', QuotaHeld',
         \A v \in Workers : \E k : k = task'[v] /\ Fine(v, k)'
  PROVE  IInv'
<1>1. ASSUME NEW v \in Workers
      PROVE  Fine(v, task[v])'
  <2>1. PICK k : k = task'[v] /\ Fine(v, k)'
    OBVIOUS
  <2>2. QED
    BY <2>1 DEF Fine, Sorted, Planned, Owned, Named, Covered, Spends, LinkOf, Stored, Mine, Used
<1>2. QED
  BY <1>1 DEF IInv

LEMMA TaskTyped ==
  ASSUME TypeOK, NEW w \in Workers, NEW t \in Task, Become(w, t)
  PROVE  /\ task' \in [Workers -> Task] /\ task'[w] = t
         /\ \A v \in Workers \ {w} : task'[v] = task[v]
BY Zenon DEF TypeOK, Become

\* A step that writes the locals of one request alone.
LEMMA LocalStep ==
  ASSUME IInv, NEW w \in Workers, NEW t \in Task, Become(w, t), UNCHANGED <<rows, lock>>,
         requests' \in 0 .. MaxRequests, Fine(w, t)
  PROVE  IInv'
<1>1. /\ task' \in [Workers -> Task] /\ task'[w] = t
      /\ \A v \in Workers \ {w} : task'[v] = task[v]
  BY TaskTyped DEF IInv
<1>2. TypeOK'
  BY <1>1 DEF IInv, TypeOK
<1>3. QuotaHeld'
  BY DEF IInv, QuotaHeld, Used, Stored
<1>4. ASSUME NEW v \in Workers
      PROVE  \E k : k = task'[v] /\ Fine(v, k)'
  <2>1. PICK k : k = task'[v] /\ Fine(v, k)
    BY <1>1 DEF IInv
  <2>2. Fine(v, k)'
    BY <2>1 DEF Fine, Sorted, Planned, Owned, Named, Covered, Spends, LinkOf, Stored, Mine, Used
  <2>3. QED
    BY <2>1, <2>2
<1>5. QED
  BY <1>2, <1>3, <1>4, FineAfter

\* A request that has found, planned and inserted nothing.
Blank(t) ==
  /\ t.pc \in {"idle", "look", "error", "reply"}
  /\ DOMAIN t.found = {} /\ t.todo = {} /\ t.refused = {}
  /\ DOMAIN t.plan = {} /\ DOMAIN t.cand = {} /\ t.done = {}
  /\ t.pc \in {"look", "reply"} => t.who \in Callers
  /\ t.pc = "reply" => GroupsOf(t.list) = {}

LEMMA BlankIsFine ==
  ASSUME NEW w \in Workers, NEW t \in Task, Blank(t), \A c \in Codes : ~Mine(w, c)
  PROVE  Fine(w, t)
BY DEF Blank, Fine, Sorted, Planned, Owned, Named, Covered, Spends, Creating

\* A worker without an open insert owns no row.
LEMMA NoRowsOwned ==
  ASSUME IInv, NEW w \in Workers, task[w].pc \notin {"insert", "commit"}
  PROVE  \A c \in Codes : ~Mine(w, c)
BY DEF IInv, Fine, Owned

LEMMA IdleTyped == Idle \in Task
<1>1. Nothing \in PerUrl(Codes) /\ Nothing \in PerUrl(0 .. (2 * MaxAttempts))
  BY DEF Nothing, PerUrl
<1>2. 0 \in 0 .. (MaxAttempts - 1) /\ << >> \in Seq(Urls \cup {Bad})
  BY LimitsAssumption
<1>3. QED
  BY <1>1, <1>2 DEF Idle, Task

LEMMA CreateBatchStep ==
  ASSUME IInv, NEW w \in Workers, NEW who \in Callers, NEW list \in Lists,
         CreateBatch(w, who, list)
  PROVE  IInv'
<1>1. PICK p : p = IF GroupsOf(list) = {} THEN "reply" ELSE "look"
  OBVIOUS
<1>2. PICK t : t = [Idle EXCEPT !.pc = p, !.who = who, !.list = list]
  OBVIOUS
<1>3. t \in Task
  BY <1>1, <1>2, IdleTyped, UrlsAssumption DEF Task
<1>4. Blank(t)
  BY <1>1, <1>2 DEF Blank, Idle, Nothing
<1>5. Become(w, t) /\ UNCHANGED <<rows, lock>> /\ requests' \in 0 .. MaxRequests
  BY <1>1, <1>2, LimitsAssumption DEF CreateBatch, IInv, TypeOK
<1>6. Fine(w, t)
  BY <1>3, <1>4, BlankIsFine, NoRowsOwned DEF CreateBatch
<1>7. QED
  BY <1>3, <1>5, <1>6, LocalStep

LEMMA CreateShortLinkStep ==
  ASSUME IInv, NEW w \in Workers, NEW who \in Callers, NEW u \in Urls,
         NEW code \in Chosen \cup {None}, CreateShortLink(w, who, u, code)
  PROVE  IInv'
<1>1. PICK t : t = [Idle EXCEPT !.pc = "look", !.who = who, !.list = <<u>>,
                                !.one = TRUE, !.code = code]
  OBVIOUS
<1>2. t \in Task
  <2>1. <<u>> \in Seq(Urls \cup {Bad})
    OBVIOUS
  <2>2. QED
    BY <1>1, <2>1, IdleTyped DEF Task
<1>3. Blank(t)
  BY <1>1 DEF Blank, Idle, Nothing
<1>4. Become(w, t) /\ UNCHANGED <<rows, lock>> /\ requests' \in 0 .. MaxRequests
  BY <1>1, LimitsAssumption DEF CreateShortLink, IInv, TypeOK
<1>5. Fine(w, t)
  BY <1>2, <1>3, BlankIsFine, NoRowsOwned DEF CreateShortLink
<1>6. QED
  BY <1>2, <1>4, <1>5, LocalStep

\* The lookup parts the groups into found and to be created.
LEMMA LookUpStep ==
  ASSUME IInv, NEW w \in Workers, LookUp(w)
  PROVE  IInv'
<1>0. /\ task[w] \in Task /\ Fine(w, task[w]) /\ task[w].pc = "look"
      /\ task[w].who \in Callers
  BY DEF IInv, TypeOK, LookUp, Fine, Sorted
<1>1. PICK k : k = task[w]
  OBVIOUS
<1>2. PICK G, hit : G = GroupsOf(k.list) /\ hit = {u \in G : LiveLinks(u, k.who) # {}}
  OBVIOUS
<1>a. PICK f \in [hit -> Codes] :
        /\ \A u \in hit : f[u] \in LiveLinks(u, k.who)
        /\ Become(w, [k EXCEPT !.found = f, !.todo = G \ hit,
                               !.pc = IF k.who \in Guests /\ (hit # G \/ ~k.one)
                                      THEN "lock" ELSE "pick"])
  BY <1>1, <1>2, Zenon DEF LookUp
<1>3. PICK p \in {"lock", "pick"} :
        p = IF k.who \in Guests /\ (hit # G \/ ~k.one) THEN "lock" ELSE "pick"
  OBVIOUS
<1>4. PICK t : t = [k EXCEPT !.found = f, !.todo = G \ hit, !.pc = p]
  OBVIOUS
<1>5. G \subseteq Urls /\ hit \subseteq G
  <2>1. k.list \in Seq(Urls \cup {Bad})
    BY <1>0, <1>1 DEF Task
  <2>2. QED
    BY <2>1, <1>2 DEF GroupsOf, Range
<1>6. t \in Task
  <2>1. f \in PerUrl(Codes)
    BY <1>5 DEF PerUrl
  <2>2. G \ hit \in SUBSET Urls
    BY <1>5
  <2>3. QED
    BY <1>0, <1>1, <1>4, <2>1, <2>2 DEF Task
<1>7. /\ t.pc = p /\ t.found = f /\ t.todo = G \ hit /\ t.refused = k.refused /\ t.list = k.list
      /\ t.who = k.who /\ t.plan = k.plan /\ t.cand = k.cand /\ t.done = k.done
      /\ t.occupied = k.occupied /\ t.salt = k.salt
  BY <1>0, <1>1, <1>4 DEF Task
<1>8. Fine(w, t)
  <2>1. Sorted(t)
    BY <1>0, <1>1, <1>2, <1>3, <1>5, <1>7 DEF Fine, Sorted
  <2>2. Planned(t)
    BY <1>0, <1>1, <1>7 DEF Fine, Planned, Sorted
  <2>3. Owned(w, t)
    BY <1>0, <1>1, <1>7, NoRowsOwned DEF Owned
  <2>4. Named(t)
    BY <1>3, <1>a, <1>7 DEF Named, LinkOf, LiveLinks
  <2>5. Covered(w, t)
    BY <1>2, <1>3, <1>7, <1>0, <1>1, <1>5 DEF Covered, Spends, Creating, Fine, Sorted
  <2>6. QED
    BY <2>1, <2>2, <2>3, <2>4, <2>5 DEF Fine
<1>9. QED
  BY <1>a, <1>3, <1>4, <1>6, <1>8, LocalStep DEF LookUp, IInv, TypeOK

\* The groups kept fit what is left of the quota.
LEMMA ApplyGuestQuotaStep ==
  ASSUME IInv, NEW w \in Workers, ApplyGuestQuota(w)
  PROVE  IInv'
<1>0. PICK k : k = task[w]
  OBVIOUS
<1>1. /\ k \in Task /\ Fine(w, k) /\ k.pc = "count" /\ k.who \in Callers
  BY <1>0 DEF IInv, TypeOK, ApplyGuestQuota, Fine, Sorted
<1>2. PICK n, keep : n = LinksLeft(k.who) /\ keep = First(k.list, k.todo, n)
  OBVIOUS
<1>3. PICK t : t = [k EXCEPT !.pc = "pick", !.todo = keep, !.refused = k.todo \ keep]
  OBVIOUS
<1>4. /\ Cardinality(Used(k.who)) \in Nat /\ n \in Nat
      /\ k.who \in Guests => n + Cardinality(Used(k.who)) = GuestLimit
  <2>1. Cardinality(Used(k.who)) \in Nat
    BY UsedFinite
  <2>2. k.who \in Guests => Cardinality(Used(k.who)) <= GuestLimit
    BY DEF IInv, QuotaHeld
  <2>3. QED
    BY <1>2, <2>1, <2>2, LimitsAssumption DEF LinksLeft
<1>5. keep \subseteq k.todo /\ Cardinality(keep) <= n
  <2>1. k.list \in Seq(Urls \cup {Bad}) /\ k.todo \in SUBSET Range(k.list)
    BY <1>1 DEF Fine, Sorted, GroupsOf, Task
  <2>2. QED
    BY <1>2, <1>4, <2>1, FirstFits DEF First
<1>6. t \in Task
  <2>1. keep \in SUBSET Urls /\ k.todo \ keep \in SUBSET Urls
    BY <1>1, <1>5 DEF Task
  <2>2. QED
    BY <1>1, <1>3, <2>1 DEF Task
<1>7. /\ t.pc = "pick" /\ t.found = k.found /\ t.todo = keep /\ t.refused = k.todo \ keep
      /\ t.list = k.list /\ t.who = k.who /\ t.plan = k.plan /\ t.cand = k.cand
      /\ t.done = k.done /\ t.occupied = k.occupied /\ t.salt = k.salt
  BY <1>1, <1>3 DEF Task
<1>8. Fine(w, t)
  <2>1. Sorted(t)
    BY <1>1, <1>5, <1>7 DEF Fine, Sorted
  <2>2. Planned(t)
    BY <1>1, <1>7 DEF Fine, Planned
  <2>3. Owned(w, t)
    BY <1>0, <1>1, <1>7, NoRowsOwned DEF Owned
  <2>4. Named(t)
    BY <1>1, <1>7 DEF Fine, Named
  <2>5. Covered(w, t)
    <3>1. IsFiniteSet(keep) /\ Cardinality(keep) \in Nat
      BY <1>1, <1>5, GroupsFinite, FS_CardinalityType DEF Fine, Sorted, GroupsOf, Task
    <3>2. QED
      BY <1>1, <1>4, <1>5, <1>7, <3>1, LimitsAssumption DEF Fine, Covered, Spends
  <2>6. QED
    BY <2>1, <2>2, <2>3, <2>4, <2>5 DEF Fine
<1>9. Become(w, t)
  BY <1>0, <1>2, <1>3 DEF ApplyGuestQuota
<1>10. QED
  BY <1>6, <1>8, <1>9, LocalStep DEF ApplyGuestQuota, IInv, TypeOK

LEMMA PickCodesStep ==
  ASSUME IInv, NEW w \in Workers, PickCodes(w)
  PROVE  IInv'
<1>0. PICK k : k = task[w]
  OBVIOUS
<1>1. k \in Task /\ Fine(w, k) /\ k.pc = "pick"
  BY <1>0 DEF IInv, TypeOK, PickCodes
<1>2. PICK C, Z, p : /\ C = Candidates(w) /\ Z = [u \in k.todo |-> 0]
                     /\ p = IF k.todo = {} THEN "commit" ELSE "resolve"
  OBVIOUS
<1>3. PICK t : t = [k EXCEPT !.cand = C, !.salt = Z, !.pc = p]
  OBVIOUS
<1>4. C \in [k.todo -> Codes] /\ Z \in [k.todo -> 0 .. (2 * MaxAttempts)] /\ k.todo \subseteq Urls
  BY <1>0, <1>1, <1>2, CodesAssumption, UrlsAssumption, LimitsAssumption DEF Candidates, Task
<1>5. t \in Task
  <2>1. C \in PerUrl(Codes) /\ Z \in PerUrl(0 .. (2 * MaxAttempts))
    BY <1>4 DEF PerUrl
  <2>2. QED
    BY <1>1, <1>2, <1>3, <2>1 DEF Task
<1>6. /\ t.pc = p /\ t.found = k.found /\ t.todo = k.todo /\ t.refused = k.refused
      /\ t.list = k.list /\ t.who = k.who /\ t.plan = k.plan /\ t.cand = C
      /\ t.done = k.done /\ t.occupied = k.occupied /\ t.salt = Z
  BY <1>1, <1>3 DEF Task
<1>7. Fine(w, t)
  <2>1. Sorted(t)
    BY <1>1, <1>2, <1>6 DEF Fine, Sorted
  <2>2. Planned(t)
    BY <1>1, <1>2, <1>4, <1>6 DEF Fine, Planned
  <2>3. Owned(w, t)
    BY <1>0, <1>1, <1>6, NoRowsOwned DEF Owned, Fine, Planned
  <2>4. Named(t)
    BY <1>1, <1>2, <1>6 DEF Fine, Named
  <2>5. Covered(w, t)
    BY <1>1, <1>2, <1>6 DEF Fine, Covered, Spends, Creating
  <2>6. QED
    BY <2>1, <2>2, <2>3, <2>4, <2>5 DEF Fine
<1>8. Become(w, t)
  BY <1>0, <1>2, <1>3 DEF PickCodes
<1>9. QED
  BY <1>5, <1>7, <1>8, LocalStep DEF PickCodes, IInv, TypeOK

\* _resolve_collisions gives no code twice: the codes of a round differ from
\* the ones given before, and from the ones given earlier in the round.
LEMMA ResolveStep ==
  ASSUME IInv, NEW w \in Workers, Resolve(w)
  PROVE  IInv'
<1>0. PICK k : k = task[w]
  OBVIOUS
<1>1. k \in Task /\ Fine(w, k) /\ k.pc = "resolve"
  BY <1>0 DEF IInv, TypeOK, Resolve
<1>2. PICK given, again : given = Given(w) /\ again = Again(w)
  OBVIOUS
<1>A. /\ given = {u \in DOMAIN k.cand : k.cand[u] \notin Taken(w, u)}
      /\ again = {u \in DOMAIN k.cand \ given : k.salt[u] + 1 <= Salts(w) + MaxAttempts}
  BY <1>0, <1>2 DEF Given, Again
<1>3. PICK P, O, Z, p :
        /\ P = [u \in DOMAIN k.plan \cup given |-> IF u \in given THEN k.cand[u] ELSE k.plan[u]]
        /\ O = k.occupied \cup {k.cand[u] : u \in DOMAIN k.cand}
        /\ Z = [u \in again |-> k.salt[u] + 1]
        /\ p = IF again = {} THEN "insert" ELSE "resolve"
  OBVIOUS
<1>4. PICK fresh \in [again -> Codes] : Become(w, Resolved(w, fresh))
  BY <1>2 DEF Resolve
<1>5. PICK C : C = [u \in again |-> IF k.salt[u] + 1 <= Salts(w)
                                    THEN CodeOf[u][k.salt[u] + 1] ELSE fresh[u]]
  OBVIOUS
<1>6. PICK t : t = [k EXCEPT !.plan = P, !.occupied = O, !.salt = Z, !.cand = C, !.pc = p]
  OBVIOUS
<1>7. /\ DOMAIN k.cand \subseteq k.todo /\ DOMAIN k.plan \subseteq k.todo /\ k.todo \subseteq Urls
      /\ k.cand \in [DOMAIN k.cand -> Codes] /\ k.plan \in [DOMAIN k.plan -> Codes]
      /\ k.salt \in [DOMAIN k.cand -> 0 .. (2 * MaxAttempts)]
      /\ k.done = {} /\ given \subseteq DOMAIN k.cand /\ again \subseteq DOMAIN k.cand
  BY <1>1, <1>A DEF Fine, Planned, Task, PerUrl
<1>8. t \in Task
  <2>1. Salts(w) \in 0 .. MaxAttempts
    BY LimitsAssumption DEF Salts
  <2>2. Z \in [again -> 0 .. (2 * MaxAttempts)]
    <3>1. ASSUME NEW u \in again
          PROVE  k.salt[u] + 1 \in 0 .. (2 * MaxAttempts)
      BY <1>A, <1>7, <2>1, LimitsAssumption
    <3>2. QED
      BY <1>3, <3>1
  <2>3. C \in [again -> Codes]
    <3>1. ASSUME NEW u \in again, k.salt[u] + 1 <= Salts(w)
          PROVE  CodeOf[u][k.salt[u] + 1] \in Codes
      <4>1. k.salt[u] + 1 \in 0 .. MaxAttempts /\ u \in Urls
        BY <3>1, <1>7, <2>1, LimitsAssumption
      <4>2. QED
        BY <4>1, UrlsAssumption
    <3>2. QED
      BY <1>5, <3>1
  <2>4. P \in [DOMAIN k.plan \cup given -> Codes] /\ O \in SUBSET Codes
    BY <1>1, <1>3, <1>7 DEF Task
  <2>5. P \in PerUrl(Codes) /\ C \in PerUrl(Codes) /\ Z \in PerUrl(0 .. (2 * MaxAttempts))
    BY <1>7, <2>2, <2>3, <2>4 DEF PerUrl
  <2>6. QED
    BY <1>1, <1>3, <1>6, <2>4, <2>5 DEF Task
<1>9. /\ t.pc = p /\ t.found = k.found /\ t.todo = k.todo /\ t.refused = k.refused
      /\ t.list = k.list /\ t.who = k.who /\ t.plan = P /\ t.cand = C
      /\ t.done = k.done /\ t.occupied = O /\ t.salt = Z
  BY <1>1, <1>6 DEF Task
<1>10. \A u \in DOMAIN P : P[u] \in O
  BY <1>1, <1>3, <1>7 DEF Fine, Planned
<1>11. ASSUME NEW u \in DOMAIN P, NEW v \in DOMAIN P, u # v
       PROVE  P[u] # P[v]
  <2>1. \A x \in given : k.cand[x] \notin k.occupied
    BY <1>0, <1>A DEF Taken
  <2>2. ASSUME NEW x \in given, NEW y \in given, x # y
        PROVE  k.cand[x] # k.cand[y]
    <3>1. /\ Place(k.list, x) \in Nat /\ Place(k.list, y) \in Nat
          /\ Place(k.list, x) # Place(k.list, y)
      <4>1. k.list \in Seq(Urls \cup {Bad}) /\ x \in Range(k.list) /\ y \in Range(k.list)
        BY <1>1, <1>7 DEF Fine, Sorted, GroupsOf, Task
      <4>2. QED
        BY <2>2, <4>1, PlaceHolds
    <3>2. CASE Place(k.list, x) < Place(k.list, y)
      BY <3>2, <1>0, <1>A DEF Taken, Before
    <3>3. CASE Place(k.list, y) < Place(k.list, x)
      BY <3>3, <1>0, <1>A DEF Taken, Before
    <3>4. QED
      BY <3>1, <3>2, <3>3
  <2>3. \A x \in DOMAIN k.plan : k.plan[x] \in k.occupied
    BY <1>1 DEF Fine, Planned
  <2>4. \A x, y \in DOMAIN k.plan : x # y => k.plan[x] # k.plan[y]
    BY <1>1 DEF Fine, Planned
  <2>5. QED
    BY <1>3, <1>11, <2>1, <2>2, <2>3, <2>4
<1>12. Fine(w, t)
  <2>1. Sorted(t)
    BY <1>1, <1>3, <1>9 DEF Fine, Sorted
  <2>2. Planned(t)
    <3>1. DOMAIN P = DOMAIN k.plan \cup given /\ DOMAIN C = again /\ DOMAIN Z = again
      BY <1>3, <1>5
    <3>2. QED
      BY <1>3, <1>7, <1>9, <1>10, <1>11, <3>1 DEF Planned
  <2>3. Owned(w, t)
    BY <1>0, <1>1, <1>7, <1>9, NoRowsOwned DEF Owned
  <2>4. Named(t)
    BY <1>1, <1>3, <1>9 DEF Fine, Named
  <2>5. Covered(w, t)
    BY <1>1, <1>3, <1>9 DEF Fine, Covered, Spends, Creating
  <2>6. QED
    BY <2>1, <2>2, <2>3, <2>4, <2>5 DEF Fine
<1>13. QED
  <2>1. Become(w, t)
    <3>1. t = Resolved(w, fresh)
      BY <1>0, <1>2, <1>3, <1>5, <1>6 DEF Resolved
    <3>2. QED
      BY <1>4, <3>1
  <2>2. QED
    BY <2>1, <1>8, <1>12, LocalStep DEF Resolve, IInv, TypeOK

LEMMA FlushedStep ==
  ASSUME IInv, NEW w \in Workers, Flushed(w)
  PROVE  IInv'
<1>0. PICK k, t : k = task[w] /\ t = [k EXCEPT !.pc = "commit"]
  OBVIOUS
<1>1. /\ k \in Task /\ Fine(w, k) /\ k.pc = "insert" /\ DOMAIN k.plan \ k.done = {}
      /\ Become(w, t)
  BY <1>0 DEF IInv, TypeOK, Flushed, ToInsert
<1>2. t \in Task
  BY <1>0, <1>1 DEF Task
<1>3. /\ t.pc = "commit" /\ t.found = k.found /\ t.todo = k.todo /\ t.refused = k.refused
      /\ t.list = k.list /\ t.who = k.who /\ t.plan = k.plan /\ t.cand = k.cand
      /\ t.done = k.done /\ t.occupied = k.occupied /\ t.salt = k.salt
  BY <1>0, <1>1 DEF Task
<1>4. Fine(w, t)
  <2>1. Sorted(t)
    BY <1>1, <1>3 DEF Fine, Sorted
  <2>2. Planned(t)
    BY <1>1, <1>3 DEF Fine, Planned
  <2>3. Owned(w, t)
    BY <1>1, <1>3 DEF Fine, Owned
  <2>4. Named(t)
    BY <1>1, <1>3 DEF Fine, Named
  <2>5. Covered(w, t)
    BY <1>1, <1>3 DEF Fine, Covered, Spends, Creating
  <2>6. QED
    BY <2>1, <2>2, <2>3, <2>4, <2>5 DEF Fine
<1>5. QED
  BY <1>1, <1>2, <1>4, LocalStep DEF Flushed, IInv, TypeOK

LEMMA ReplyStep ==
  ASSUME IInv, NEW w \in Workers, Reply(w)
  PROVE  IInv'
<1>1. Blank(Idle)
  BY DEF Blank, Idle, Nothing
<1>2. Fine(w, Idle)
  BY <1>1, IdleTyped, BlankIsFine, NoRowsOwned DEF Reply
<1>3. QED
  BY <1>2, IdleTyped, LocalStep DEF Reply, IInv, TypeOK

-----------------------------------------------------------------------------
(* Steps that write the tables. *)

\* What the other requests rely on: their own rows and locks stay as they
\* are, links that are stored stay, and the allowance of a guest whose lock
\* one of them holds is not spent by anybody else.
LEMMA OthersFine ==
  ASSUME IInv, NEW V \in SUBSET Workers, \A v \in V : task'[v] = task[v],
         \A c \in Codes : rows[c] # None /\ rows[c].by \in V => rows'[c] = rows[c],
         \A c \in Codes : rows'[c] # None /\ rows'[c].by \in V => rows'[c] = rows[c],
         \A c \in Codes : Stored(c) => /\ rows'[c] # None /\ rows'[c].by = None
                                       /\ rows'[c].url = rows[c].url
                                       /\ rows'[c].who = rows[c].who,
         \A g \in Guests : lock[g] \in V =>
            lock'[g] = lock[g] /\ Cardinality(Used(g)') <= Cardinality(Used(g))
  PROVE  \A v \in V : \E k : k = task'[v] /\ Fine(v, k)'
<1>1. ASSUME NEW v \in V
      PROVE  \E k : k = task'[v] /\ Fine(v, k)'
  <2>1. PICK k : k = task'[v]
    OBVIOUS
  <2>2. k \in Task /\ Fine(v, k) /\ k = task[v]
    BY <2>1 DEF IInv, TypeOK
  <2>3. Sorted(k)' /\ Planned(k)'
    BY <2>2 DEF Fine, Sorted, Planned
  <2>4. Owned(v, k)'
    <3>1. \A c \in Codes : Mine(v, c)' <=> Mine(v, c)
      BY DEF Mine
    <3>2. \A c \in Codes : Mine(v, c) => rows'[c] = rows[c]
      BY DEF Mine
    <3>3. \A u \in k.done : k.plan[u] \in Codes
      BY <2>2 DEF Fine, Planned, Task, PerUrl
    <3>4. Owned(v, k)
      BY <2>2 DEF Fine
    <3>5. ASSUME NEW c \in Codes, Mine(v, c)'
          PROVE  /\ k.pc \in {"insert", "commit"} /\ rows'[c].who = k.who
                 /\ rows'[c].url \in k.done /\ k.plan[rows'[c].url] = c
      BY <3>1, <3>2, <3>4, <3>5 DEF Owned
    <3>6. ASSUME k.pc \in {"insert", "commit"}, NEW u \in k.done
          PROVE  Mine(v, k.plan[u])' /\ rows'[k.plan[u]].url = u
      BY <3>1, <3>2, <3>3, <3>4, <3>6 DEF Owned
    <3>7. QED
      BY <3>5, <3>6 DEF Owned
  <2>5. Named(k)'
    <3>1. \A u \in DOMAIN k.found : k.found[u] \in Codes
      BY <2>2 DEF Task, PerUrl
    <3>2. \A u \in DOMAIN k.plan : k.plan[u] \in Codes
      BY <2>2 DEF Task, PerUrl
    <3>3. ASSUME NEW c \in Codes, NEW u, LinkOf(c, u, k.who)
          PROVE  LinkOf(c, u, k.who)'
      BY <3>3 DEF LinkOf, Stored
    <3>4. QED
      BY <2>2, <3>1, <3>2, <3>3 DEF Fine, Named
  <2>6. Covered(v, k)'
    <3>1. Covered(v, k)
      BY <2>2 DEF Fine
    <3>2. ASSUME (k.who \in Guests /\ k.pc = "count") \/ Spends(k)
          PROVE  lock'[k.who] = v /\ Cardinality(Used(k.who)') <= Cardinality(Used(k.who))
      BY <3>1, <3>2 DEF Covered, Spends
    <3>3. ASSUME Spends(k)
          PROVE  Cardinality(Used(k.who)') + Cardinality(k.todo) <= GuestLimit
      <4>1. /\ Cardinality(Used(k.who)) \in Nat /\ Cardinality(Used(k.who)') \in Nat
            /\ Cardinality(k.todo) \in Nat
        <5>1. Cardinality(Used(k.who)) \in Nat
          BY UsedFinite
        <5>2. Used(k.who)' \in SUBSET Codes
          BY DEF Used
        <5>3. Cardinality(Used(k.who)') \in Nat
          BY <5>2, CodesAssumption, FS_Subset, FS_CardinalityType
        <5>4. k.todo \subseteq Range(k.list) /\ k.list \in Seq(Urls \cup {Bad})
          BY <2>2, <3>3 DEF Fine, Sorted, GroupsOf, Spends, Creating, Task
        <5>5. Cardinality(k.todo) \in Nat
          BY <5>4, GroupsFinite, FS_CardinalityType
        <5>6. QED
          BY <5>1, <5>3, <5>5
      <4>2. Cardinality(Used(k.who)) + Cardinality(k.todo) <= GuestLimit
        BY <3>1, <3>3 DEF Covered
      <4>3. QED
        BY <4>1, <4>2, <3>2, <3>3, LimitsAssumption
    <3>4. Spends(k)' <=> Spends(k)
      BY DEF Spends
    <3>5. QED
      BY <3>2, <3>3, <3>4 DEF Covered
  <2>7. QED
    BY <2>1, <2>3, <2>4, <2>5, <2>6 DEF Fine
<1>2. QED
  BY <1>1

LEMMA LockGuestQuotaStep ==
  ASSUME IInv, NEW w \in Workers, LockGuestQuota(w)
  PROVE  IInv'
<1>0. PICK k, t : k = task[w] /\ t = [k EXCEPT !.pc = "count"]
  OBVIOUS
<1>1. /\ k \in Task /\ Fine(w, k) /\ k.pc = "lock" /\ lock[k.who] = None
      /\ lock' = [lock EXCEPT ![k.who] = w] /\ Become(w, t) /\ UNCHANGED <<rows, requests>>
  BY <1>0 DEF IInv, TypeOK, LockGuestQuota
<1>2. t \in Task
  BY <1>0, <1>1 DEF Task
<1>3. /\ t.pc = "count" /\ t.found = k.found /\ t.todo = k.todo /\ t.refused = k.refused
      /\ t.list = k.list /\ t.who = k.who /\ t.plan = k.plan /\ t.cand = k.cand
      /\ t.done = k.done /\ t.occupied = k.occupied
  BY <1>0, <1>1 DEF Task
<1>4. /\ task' \in [Workers -> Task] /\ task'[w] = t
      /\ \A v \in Workers \ {w} : task'[v] = task[v]
  BY <1>1, <1>2, TaskTyped DEF IInv
<1>5. TypeOK'
  BY <1>1, <1>4 DEF IInv, TypeOK
<1>6. QuotaHeld' /\ \A g : Used(g)' = Used(g)
  BY <1>1 DEF IInv, QuotaHeld, Used, Stored
<1>7. Fine(w, t)'
  <2>1. Sorted(t)'
    BY <1>1, <1>3 DEF Fine, Sorted
  <2>2. Planned(t)'
    BY <1>1, <1>3 DEF Fine, Planned
  <2>3. Owned(w, t)'
    <3>1. \A c \in Codes : ~Mine(w, c)
      BY <1>0, <1>1, NoRowsOwned
    <3>2. QED
      BY <1>1, <1>3, <3>1 DEF Owned, Mine
  <2>4. Named(t)'
    BY <1>1, <1>3 DEF Fine, Named, LinkOf, Stored
  <2>5. Covered(w, t)'
    BY <1>1, <1>3 DEF Covered, Spends, Creating, IInv, TypeOK
  <2>6. QED
    BY <2>1, <2>2, <2>3, <2>4, <2>5 DEF Fine
<1>8. \A v \in Workers \ {w} : \E x : x = task'[v] /\ Fine(v, x)'
  <2>1. \A g \in Guests : lock[g] \in Workers \ {w} =>
           lock'[g] = lock[g] /\ Cardinality(Used(g)') <= Cardinality(Used(g))
    BY <1>1, <1>6, UsedFinite, NoneAssumption DEF IInv, TypeOK
  <2>2. QED
    BY <1>1, <1>4, <2>1, OthersFine DEF Stored
<1>9. QED
  BY <1>4, <1>5, <1>6, <1>7, <1>8, FineAfter

\* A transaction that ends without a trace.
LEMMA UndoStep ==
  ASSUME IInv, NEW w \in Workers, NEW t \in Task, Blank(t), Become(w, t), Undo(w),
         requests' = requests
  PROVE  IInv'
<1>1. /\ task' \in [Workers -> Task] /\ task'[w] = t
      /\ \A v \in Workers \ {w} : task'[v] = task[v]
  BY TaskTyped DEF IInv
<1>2. \A c \in Codes : rows'[c] = IF Mine(w, c) THEN None ELSE rows[c]
  BY DEF Undo
<1>3. TypeOK'
  BY <1>1 DEF IInv, TypeOK, Undo
<1>4. w # None
  BY NoneAssumption
<1>5. \A g : Used(g)' = Used(g)
  BY <1>2, <1>4 DEF Used, Stored, Mine
<1>6. QuotaHeld'
  BY <1>5 DEF IInv, QuotaHeld
<1>7. Fine(w, t)'
  <2>1. \A c \in Codes : ~Mine(w, c)'
    BY <1>2 DEF Mine
  <2>2. QED
    BY <2>1 DEF Blank, Fine, Sorted, Planned, Owned, Named, Covered, Spends, Creating
<1>8. \A v \in Workers \ {w} : \E x : x = task'[v] /\ Fine(v, x)'
  <2>1. \A g \in Guests : lock[g] \in Workers \ {w} =>
           lock'[g] = lock[g] /\ Cardinality(Used(g)') <= Cardinality(Used(g))
    BY <1>5, UsedFinite DEF Undo
  <2>2. \A c \in Codes : ~Mine(w, c) => rows'[c] = rows[c]
    BY <1>2
  <2>3. \A c \in Codes : rows[c] # None /\ rows[c].by \in Workers \ {w} => rows'[c] = rows[c]
    BY <2>2 DEF Mine
  <2>4. \A c \in Codes : rows'[c] # None /\ rows'[c].by \in Workers \ {w} => rows'[c] = rows[c]
    BY <1>2
  <2>5. \A c \in Codes : Stored(c) => rows'[c] = rows[c]
    BY <2>2, <1>4 DEF Mine, Stored
  <2>6. QED
    BY <1>1, <2>1, <2>3, <2>4, <2>5, OthersFine DEF Stored
<1>9. QED
  BY <1>1, <1>3, <1>6, <1>7, <1>8, FineAfter

LEMMA FailureTyped ==
  ASSUME NEW p \in {"idle", "error"}
  PROVE  [Idle EXCEPT !.pc = p] \in Task /\ Blank([Idle EXCEPT !.pc = p])
<1>1. [Idle EXCEPT !.pc = p] \in Task
  BY IdleTyped DEF Task
<1>2. Blank([Idle EXCEPT !.pc = p])
  BY DEF Blank, Idle, Nothing
<1>3. QED
  BY <1>1, <1>2

LEMMA RefuseTakenStep ==
  ASSUME IInv, NEW w \in Workers, RefuseTaken(w)
  PROVE  IInv'
BY FailureTyped, UndoStep DEF RefuseTaken

LEMMA BreakDeadlockStep ==
  ASSUME IInv, NEW w \in Workers, BreakDeadlock(w)
  PROVE  IInv'
BY FailureTyped, UndoStep DEF BreakDeadlock

LEMMA CrashStep ==
  ASSUME IInv, NEW w \in Workers, Crash(w)
  PROVE  IInv'
<1>1. Blank(Idle)
  BY DEF Blank, Idle, Nothing
<1>2. QED
  BY <1>1, IdleTyped, UndoStep DEF Crash

LEMMA ConflictStep ==
  ASSUME IInv, NEW w \in Workers, Conflict(w)
  PROVE  IInv'
<1>1. PICK k : k = task[w]
  OBVIOUS
<1>2. k \in Task /\ k.pc = "insert" /\ k.who \in Callers
  BY <1>1 DEF IInv, TypeOK, Conflict, Inserting, Fine, Sorted
<1>3. CASE k.attempt + 1 < MaxAttempts
  <2>1. PICK t : t = [Idle EXCEPT !.pc = "look", !.who = k.who, !.list = k.list,
                        !.one = k.one, !.code = k.code, !.attempt = k.attempt + 1]
    OBVIOUS
  <2>2. t \in Task
    <3>1. k.attempt + 1 \in 0 .. (MaxAttempts - 1)
      BY <1>2, <1>3, LimitsAssumption DEF Task
    <3>2. QED
      BY <1>2, <2>1, <3>1, IdleTyped DEF Task
  <2>3. Blank(t)
    BY <1>2, <2>1 DEF Blank, Idle, Nothing
  <2>4. Become(w, t)
    BY <1>1, <1>3, <2>1 DEF Conflict, AfterConflict
  <2>5. QED
    BY <2>2, <2>3, <2>4, UndoStep DEF Conflict
<1>4. CASE ~(k.attempt + 1 < MaxAttempts)
  <2>1. Become(w, [Idle EXCEPT !.pc = "error"])
    BY <1>1, <1>4 DEF Conflict, AfterConflict
  <2>2. QED
    BY <2>1, FailureTyped, UndoStep DEF Conflict
<1>5. QED
  BY <1>3, <1>4

LEMMA InsertStep ==
  ASSUME IInv, NEW w \in Workers, Insert(w)
  PROVE  IInv'
<1>0. PICK k, u, c : k = task[w] /\ u = NextUrl(w) /\ c = NextCode(w)
  OBVIOUS
<1>1. PICK r, t : r = Row(u, k.who, w) /\ t = [k EXCEPT !.done = k.done \cup {u}]
  OBVIOUS
<1>2. /\ k \in Task /\ Fine(w, k) /\ k.pc = "insert" /\ k.who \in Callers /\ w # None
      /\ DOMAIN k.plan \subseteq k.todo /\ k.todo \subseteq Range(k.list) /\ k.todo \subseteq Urls
  BY <1>0, NoneAssumption DEF IInv, TypeOK, Insert, Inserting, Fine, Sorted, Planned, GroupsOf, Task
<1>3. u \in DOMAIN k.plan \ k.done /\ c = k.plan[u] /\ c \in Codes /\ u \in Urls
  <2>1. ToInsert(w) = DOMAIN k.plan \ k.done /\ ToInsert(w) # {}
    BY <1>0 DEF ToInsert, Insert, Inserting
  <2>2. NextUrl(w) \in ToInsert(w)
    BY <1>0, <1>2, <2>1, NextExists DEF IInv
  <2>3. u \in DOMAIN k.plan \ k.done /\ c = k.plan[u]
    BY <1>0, <2>1, <2>2 DEF NextCode
  <2>4. QED
    BY <1>2, <2>3 DEF Task, PerUrl
<1>4. rows[c] = None /\ rows' = [rows EXCEPT ![c] = r] /\ UNCHANGED <<lock, requests>>
  BY <1>0, <1>1 DEF Insert
<1>5. /\ r \in Rows /\ r # None /\ r.url = u /\ r.who = k.who /\ r.by = w
  <2>1. r \in Rows
    BY <1>1, <1>2, <1>3 DEF Row, Rows
  <2>2. r.url = u /\ r.who = k.who /\ r.by = w
    BY <1>1 DEF Row
  <2>3. QED
    BY <2>1, <2>2, NoneIsNoRow
<1>6. rows'[c] = r /\ \A d \in Codes \ {c} : rows'[d] = rows[d]
  BY <1>3, <1>4 DEF IInv, TypeOK
<1>7. t \in Task /\ Become(w, t)
  <2>1. t \in Task
    BY <1>1, <1>2, <1>3 DEF Task
  <2>2. Become(w, t)
    BY <1>0, <1>1 DEF Insert
  <2>3. QED
    BY <2>1, <2>2
<1>8. /\ t.pc = "insert" /\ t.found = k.found /\ t.todo = k.todo /\ t.refused = k.refused
      /\ t.list = k.list /\ t.who = k.who /\ t.plan = k.plan /\ t.cand = k.cand
      /\ t.done = k.done \cup {u} /\ t.occupied = k.occupied
  BY <1>1, <1>2 DEF Task
<1>9. /\ task' \in [Workers -> Task] /\ task'[w] = t
      /\ \A v \in Workers \ {w} : task'[v] = task[v]
  BY <1>7, TaskTyped DEF IInv
<1>10. TypeOK'
  BY <1>3, <1>4, <1>5, <1>9 DEF IInv, TypeOK
<1>11. \A g : Used(g)' = Used(g)
  BY <1>2, <1>4, <1>5, <1>6 DEF Used, Stored
<1>12. QuotaHeld'
  BY <1>11 DEF IInv, QuotaHeld
<1>13. Fine(w, t)'
  <2>1. Sorted(t)'
    BY <1>2, <1>8 DEF Fine, Sorted
  <2>2. Planned(t)'
    BY <1>2, <1>3, <1>8 DEF Fine, Planned
  <2>3. Owned(w, t)'
    <3>1. \A d \in Codes \ {c} : Mine(w, d)' <=> Mine(w, d)
      BY <1>6 DEF Mine
    <3>2. Mine(w, c)' /\ ~Mine(w, c)
      BY <1>4, <1>5, <1>6 DEF Mine
    <3>3. Owned(w, k)
      BY <1>2 DEF Fine
    <3>4. ASSUME NEW d \in Codes, Mine(w, d)'
          PROVE  /\ t.pc \in {"insert", "commit"} /\ rows'[d].who = t.who
                 /\ rows'[d].url \in t.done /\ t.plan[rows'[d].url] = d
      <4>1. CASE d = c
        BY <4>1, <1>3, <1>5, <1>6, <1>8
      <4>2. CASE d # c
        BY <4>2, <1>6, <1>8, <3>1, <3>3, <3>4 DEF Owned
      <4>3. QED
        BY <4>1, <4>2
    <3>5. ASSUME NEW v \in t.done
          PROVE  Mine(w, t.plan[v])' /\ rows'[t.plan[v]].url = v
      <4>1. CASE v = u
        BY <4>1, <1>3, <1>5, <1>6, <1>8, <3>2
      <4>2. CASE v # u
        <5>1. Mine(w, k.plan[v]) /\ rows[k.plan[v]].url = v
          BY <4>2, <1>2, <1>8, <3>3, <3>5 DEF Owned
        <5>2. k.plan[v] \in Codes \ {c}
          BY <5>1, <3>2, <4>2, <1>2, <1>8 DEF Fine, Planned, Task, PerUrl
        <5>3. QED
          BY <5>1, <5>2, <1>6, <1>8, <3>1
      <4>3. QED
        BY <4>1, <4>2
    <3>6. QED
      BY <3>4, <3>5 DEF Owned
  <2>4. Named(t)'
    <3>1. \A v \in DOMAIN k.found : k.found[v] \in Codes /\ LinkOf(k.found[v], v, k.who)
      BY <1>2 DEF Fine, Named, Task, PerUrl
    <3>2. \A v \in DOMAIN k.found : LinkOf(k.found[v], v, k.who)'
      BY <3>1, <1>4, <1>6 DEF LinkOf, Stored
    <3>3. QED
      BY <1>8, <3>2 DEF Named
  <2>5. Covered(w, t)'
    BY <1>2, <1>4, <1>8, <1>11 DEF Fine, Covered, Spends, Creating
  <2>6. QED
    BY <2>1, <2>2, <2>3, <2>4, <2>5 DEF Fine
<1>14. \A v \in Workers \ {w} : \E x : x = task'[v] /\ Fine(v, x)'
  <2>1. \A g \in Guests : lock[g] \in Workers \ {w} =>
           lock'[g] = lock[g] /\ Cardinality(Used(g)') <= Cardinality(Used(g))
    BY <1>4, <1>11, UsedFinite
  <2>2. \A d \in Codes : rows[d] # None => rows'[d] = rows[d]
    BY <1>4, <1>6
  <2>3. \A d \in Codes : rows'[d] # None /\ rows'[d].by \in Workers \ {w} => rows'[d] = rows[d]
    BY <1>5, <1>6
  <2>4. QED
    BY <1>9, <2>1, <2>2, <2>3, OthersFine DEF Stored
<1>15. QED
  BY <1>9, <1>10, <1>12, <1>13, <1>14, FineAfter

\* A committed link expires, or leaves the quota's window.
LEMMA AgeingStep ==
  ASSUME IInv, NEW c \in Codes, Expire(c) \/ LeaveWindow(c)
  PROVE  IInv'
<1>1. /\ Stored(c) /\ UNCHANGED <<lock, task, requests>>
      /\ \A d \in Codes \ {c} : rows'[d] = rows[d]
      /\ rows' \in [Codes -> Rows \cup {None}]
      /\ rows'[c] \in Rows /\ rows'[c].by = None /\ rows'[c].url = rows[c].url
      /\ rows'[c].who = rows[c].who /\ (rows'[c].recent => rows[c].recent)
  <2>0. rows[c] \in Rows /\ rows \in [Codes -> Rows \cup {None}] /\ Stored(c)
    BY DEF Expire, LeaveWindow, Stored, IInv, TypeOK
  <2>1. CASE Expire(c)
    BY <2>0, <2>1 DEF Expire, Rows, Stored
  <2>2. CASE LeaveWindow(c)
    BY <2>0, <2>2 DEF LeaveWindow, Rows, Stored
  <2>3. QED
    BY <2>1, <2>2
<1>2. rows'[c] # None /\ rows[c].by = None /\ rows[c] # None /\ None \notin Workers
  BY <1>1, NoneAssumption DEF Stored, Rows
<1>3. ASSUME NEW g
      PROVE  Cardinality(Used(g)') <= Cardinality(Used(g))
  <2>1. Used(g)' \subseteq Used(g)
    BY <1>1, <1>2 DEF Used, Stored
  <2>2. QED
    BY <2>1, UsedFinite, FS_Subset
<1>4. TypeOK'
  BY <1>1 DEF IInv, TypeOK
<1>5. QuotaHeld'
  <2>1. ASSUME NEW g \in Guests
        PROVE  Cardinality(Used(g)') <= GuestLimit
    <3>1. Used(g)' \in SUBSET Codes
      BY DEF Used
    <3>2. Cardinality(Used(g)') \in Nat
      BY <3>1, CodesAssumption, FS_Subset, FS_CardinalityType
    <3>3. QED
      BY <1>3, <3>2, UsedFinite, LimitsAssumption DEF IInv, QuotaHeld
  <2>2. QED
    BY <2>1 DEF QuotaHeld
<1>6. \A v \in Workers : \E x : x = task'[v] /\ Fine(v, x)'
  <2>1. \A d \in Codes : rows[d] # None /\ rows[d].by \in Workers => rows'[d] = rows[d]
    BY <1>1, <1>2
  <2>2. \A d \in Codes : rows'[d] # None /\ rows'[d].by \in Workers => rows'[d] = rows[d]
    BY <1>1, <1>2
  <2>3. \A d \in Codes : Stored(d) => /\ rows'[d] # None /\ rows'[d].by = None
                                      /\ rows'[d].url = rows[d].url
                                      /\ rows'[d].who = rows[d].who
    BY <1>1, <1>2 DEF Stored
  <2>4. QED
    BY <1>1, <1>3, <2>1, <2>2, <2>3, OthersFine
<1>7. QED
  BY <1>4, <1>5, <1>6, FineAfter

\* Commit adds to what counts against a guest the rows of one transaction,
\* of which there are no more than links the count had left for it.
LEMMA CommitStep ==
  ASSUME IInv, NEW w \in Workers, Commit(w)
  PROVE  IInv'
<1>0. PICK k, t, M : k = task[w] /\ t = [k EXCEPT !.pc = "reply"] /\ M = {c \in Codes : Mine(w, c)}
  OBVIOUS
<1>1. k \in Task /\ Fine(w, k) /\ k.pc = "commit" /\ w # None /\ Become(w, t)
  BY <1>0, NoneAssumption DEF IInv, TypeOK, Commit
<1>2. t \in Task
  BY <1>0, <1>1 DEF Task
<1>3. /\ t.pc = "reply" /\ t.found = k.found /\ t.todo = k.todo /\ t.refused = k.refused
      /\ t.list = k.list /\ t.who = k.who /\ t.plan = k.plan /\ t.cand = k.cand
      /\ t.done = k.done /\ t.occupied = k.occupied
  BY <1>0, <1>1 DEF Task
<1>4. /\ task' \in [Workers -> Task] /\ task'[w] = t
      /\ \A v \in Workers \ {w} : task'[v] = task[v]
  BY <1>1, <1>2, TaskTyped DEF IInv
<1>5. /\ \A c \in Codes \ M : rows'[c] = rows[c]
      /\ \A c \in M : /\ rows[c] \in Rows /\ rows[c].by = w
                      /\ rows'[c] = [rows[c] EXCEPT !.by = None]
  BY <1>0 DEF Commit, Mine, IInv, TypeOK
<1>6. \A c \in M : /\ rows'[c] \in Rows /\ rows'[c] # None /\ rows'[c].by = None
                   /\ rows'[c].url = rows[c].url /\ rows'[c].who = rows[c].who
  <2>1. ASSUME NEW c \in M
        PROVE  /\ rows'[c] \in Rows /\ rows'[c].by = None
               /\ rows'[c].url = rows[c].url /\ rows'[c].who = rows[c].who
    BY <1>5 DEF Rows
  <2>2. QED
    BY <2>1, NoneIsNoRow
<1>7. TypeOK'
  <2>1. lock' \in [Guests -> Workers \cup {None}]
    BY DEF Commit, IInv, TypeOK
  <2>2. \A c \in Codes : rows'[c] \in Rows \cup {None}
    BY <1>5, <1>6 DEF IInv, TypeOK
  <2>3. rows' \in [Codes -> Rows \cup {None}]
    BY <2>2 DEF Commit
  <2>4. QED
    BY <1>4, <2>1, <2>3 DEF IInv, TypeOK, Commit
<1>8. \A c \in M : rows[c].who = k.who /\ rows[c].url \in k.todo /\ k.plan[rows[c].url] = c
  BY <1>0, <1>1 DEF Fine, Owned, Planned
<1>9. ASSUME NEW g, g # k.who \/ M = {}
      PROVE  Used(g)' = Used(g)
  BY <1>5, <1>6, <1>8, <1>9 DEF Used, Stored
<1>10. M # {} /\ k.who \in Guests => Spends(k) /\ lock[k.who] = w
  BY <1>1, <1>8 DEF Fine, Covered, Spends, Creating
<1>11. ASSUME NEW g \in Guests
       PROVE  Cardinality(Used(g)') <= GuestLimit
  <2>1. CASE g # k.who \/ M = {}
    BY <2>1, <1>9 DEF IInv, QuotaHeld
  <2>2. CASE g = k.who /\ M # {}
    <3>1. Cardinality(Used(g)) + Cardinality(k.todo) <= GuestLimit
      BY <2>2, <1>1, <1>10 DEF Fine, Covered
    <3>2. IsFiniteSet(k.todo) /\ Cardinality(k.todo) \in Nat
      <4>1. k.todo \subseteq Range(k.list) /\ k.list \in Seq(Urls \cup {Bad})
        BY <1>1 DEF Fine, Sorted, GroupsOf, Task
      <4>2. QED
        BY <4>1, GroupsFinite, FS_CardinalityType
    <3>3. IsFiniteSet(M) /\ Cardinality(M) <= Cardinality(k.todo) /\ Cardinality(M) \in Nat
      <4>1. PICK f : f = [c \in M |-> rows[c].url]
        OBVIOUS
      <4>2. f \in [M -> k.todo] /\ \A c, d \in M : f[c] = f[d] => c = d
        BY <4>1, <1>8
      <4>3. f \in Injection(M, k.todo)
        BY <4>2 DEF Injection, IsInjective
      <4>4. IsFiniteSet(M) /\ Cardinality(M) <= Cardinality(k.todo)
        BY <3>2, <4>3, FS_Injection, Zenon
      <4>5. QED
        BY <4>4, FS_CardinalityType
    <3>4. Used(g)' \subseteq Used(g) \cup M
      BY <1>5, <1>0 DEF Used, Stored
    <3>5. PICK U : U = Used(g)
      OBVIOUS
    <3>6. IsFiniteSet(U) /\ Cardinality(U) \in Nat
      BY <3>5, UsedFinite
    <3>7. /\ IsFiniteSet(U \cup M) /\ IsFiniteSet(U \cap M)
          /\ Cardinality(U \cup M) = Cardinality(U) + Cardinality(M) - Cardinality(U \cap M)
      BY <3>3, <3>6, FS_Union, FS_Intersection
    <3>8. Cardinality(U \cap M) \in Nat /\ Cardinality(U \cup M) \in Nat
      BY <3>7, FS_CardinalityType
    <3>9. Cardinality(U \cup M) <= GuestLimit
      BY <3>1, <3>2, <3>3, <3>5, <3>6, <3>7, <3>8, LimitsAssumption
    <3>10. Cardinality(Used(g)') <= Cardinality(U \cup M) /\ Cardinality(Used(g)') \in Nat
      BY <3>4, <3>5, <3>7, FS_Subset, FS_CardinalityType
    <3>11. QED
      BY <3>8, <3>9, <3>10, LimitsAssumption
  <2>3. QED
    BY <2>1, <2>2
<1>12. QuotaHeld'
  BY <1>11 DEF QuotaHeld
<1>13. Fine(w, t)'
  <2>1. Sorted(t)'
    BY <1>1, <1>3 DEF Fine, Sorted
  <2>2. Planned(t)'
    BY <1>1, <1>3 DEF Fine, Planned
  <2>3. Owned(w, t)'
    <3>1. \A c \in Codes : ~Mine(w, c)'
      BY <1>0, <1>1, <1>5, <1>6 DEF Mine
    <3>2. QED
      BY <1>3, <3>1 DEF Owned
  <2>4. Named(t)'
    <3>1. \A u \in DOMAIN k.found : k.found[u] \in Codes \ M /\ LinkOf(k.found[u], u, k.who)
      BY <1>0, <1>1 DEF Fine, Named, Task, PerUrl, LinkOf, Stored, Mine
    <3>2. \A u \in DOMAIN k.found : LinkOf(k.found[u], u, k.who)'
      BY <3>1, <1>5 DEF LinkOf, Stored
    <3>3. \A u \in DOMAIN k.plan : k.plan[u] \in M /\ rows[k.plan[u]].url = u
      BY <1>0, <1>1 DEF Fine, Planned, Owned, Task, PerUrl
    <3>4. \A u \in DOMAIN k.plan : LinkOf(k.plan[u], u, k.who)'
      BY <3>3, <1>6, <1>8 DEF LinkOf, Stored
    <3>5. QED
      BY <1>3, <3>2, <3>4 DEF Named
  <2>5. Covered(w, t)'
    BY <1>3 DEF Covered, Spends, Creating
  <2>6. QED
    BY <2>1, <2>2, <2>3, <2>4, <2>5 DEF Fine
<1>14. \A v \in Workers \ {w} : \E x : x = task'[v] /\ Fine(v, x)'
  <2>1. ASSUME NEW g \in Guests, lock[g] \in Workers \ {w}
        PROVE  lock'[g] = lock[g] /\ Cardinality(Used(g)') <= Cardinality(Used(g))
    <3>1. g # k.who \/ M = {}
      BY <2>1, <1>10
    <3>2. Used(g)' = Used(g)
      BY <3>1, <1>9
    <3>3. QED
      BY <2>1, <3>2, UsedFinite DEF Commit
  <2>2. \A c \in Codes : rows[c] # None /\ rows[c].by \in Workers \ {w} => rows'[c] = rows[c]
    BY <1>0, <1>5 DEF Mine
  <2>3. \A c \in Codes : rows'[c] # None /\ rows'[c].by \in Workers \ {w} => rows'[c] = rows[c]
    BY <1>5, <1>6, NoneAssumption
  <2>4. \A c \in Codes : Stored(c) => rows'[c] = rows[c]
    BY <1>0, <1>1, <1>5 DEF Stored, Mine
  <2>5. QED
    BY <1>4, <2>1, <2>2, <2>3, <2>4, OthersFine DEF Stored
<1>15. QED
  BY <1>4, <1>7, <1>12, <1>13, <1>14, FineAfter

-----------------------------------------------------------------------------
(* The theorems. *)

LEMMA InitHolds == Init => IInv
<1> SUFFICES ASSUME Init PROVE IInv
  OBVIOUS
<1>1. TypeOK
  BY IdleTyped, LimitsAssumption DEF Init, TypeOK
<1>2. QuotaHeld
  <2>1. \A g : Used(g) = {}
    BY DEF Init, Used, Stored
  <2>2. QED
    BY <2>1, FS_EmptySet, LimitsAssumption DEF QuotaHeld
<1>3. ASSUME NEW w \in Workers
      PROVE  Fine(w, task[w])
  <2>1. Blank(Idle) /\ task[w] = Idle
    BY DEF Blank, Idle, Nothing, Init
  <2>2. \A c \in Codes : ~Mine(w, c)
    BY DEF Init, Mine
  <2>3. QED
    BY <2>1, <2>2, IdleTyped, BlankIsFine
<1>4. QED
  BY <1>1, <1>2, <1>3 DEF IInv

LEMMA NextHolds == IInv /\ [Next]_vars => IInv'
<1> SUFFICES ASSUME IInv, [Next]_vars PROVE IInv'
  OBVIOUS
<1>1. ASSUME NEW w \in Workers, NEW who \in Callers, NEW list \in Lists,
             CreateBatch(w, who, list)
      PROVE  IInv'
  BY <1>1, CreateBatchStep
<1>2. ASSUME NEW w \in Workers, NEW who \in Callers, NEW u \in Urls,
             NEW code \in Chosen \cup {None}, CreateShortLink(w, who, u, code)
      PROVE  IInv'
  BY <1>2, CreateShortLinkStep
<1>3. ASSUME NEW w \in Workers, Attempt(w)
      PROVE  IInv'
  <2>1. CASE LookUp(w)          BY <2>1, LookUpStep
  <2>2. CASE LockGuestQuota(w)  BY <2>2, LockGuestQuotaStep
  <2>3. CASE ApplyGuestQuota(w) BY <2>3, ApplyGuestQuotaStep
  <2>4. CASE PickCodes(w)       BY <2>4, PickCodesStep
  <2>5. CASE Resolve(w)         BY <2>5, ResolveStep
  <2>6. CASE RefuseTaken(w)     BY <2>6, RefuseTakenStep
  <2>7. CASE Insert(w)          BY <2>7, InsertStep
  <2>8. CASE Flushed(w)         BY <2>8, FlushedStep
  <2>9. CASE Conflict(w)        BY <2>9, ConflictStep
  <2>10. CASE Commit(w)         BY <2>10, CommitStep
  <2>11. QED
    BY <1>3, <2>1, <2>2, <2>3, <2>4, <2>5, <2>6, <2>7, <2>8, <2>9, <2>10 DEF Attempt
<1>4. ASSUME NEW w \in Workers, Step(w) \/ Crash(w)
      PROVE  IInv'
  BY <1>3, <1>4, ReplyStep, BreakDeadlockStep, CrashStep DEF Step
<1>5. ASSUME NEW c \in Codes, Expire(c) \/ LeaveWindow(c)
      PROVE  IInv'
  BY <1>5, AgeingStep
<1>6. CASE UNCHANGED vars
  <2>1. UNCHANGED <<rows, lock, task, requests>>
    BY <1>6 DEF vars
  <2>2. TypeOK' /\ QuotaHeld' /\ \A g : Used(g)' = Used(g)
    BY <2>1 DEF IInv, TypeOK, QuotaHeld, Used, Stored
  <2>3. \A g \in Guests : lock'[g] = lock[g] /\ Cardinality(Used(g)') <= Cardinality(Used(g))
    BY <2>1, <2>2, UsedFinite
  <2>4. \A v \in Workers : \E x : x = task'[v] /\ Fine(v, x)'
    BY <2>1, <2>3, OthersFine DEF Stored
  <2>5. QED
    BY <2>2, <2>4, FineAfter
<1>7. QED
  BY <1>1, <1>2, <1>4, <1>5, <1>6 DEF Next

\* The strengthening holds in every state of every run.
THEOREM Inductive == Spec => []IInv
BY InitHolds, NextHolds, PTL DEF Spec

\* Every request's locals, every row and every lock keep their shape: no
\* attempt leaves the retry bound, no salt leaves its range.
THEOREM TypeCorrect == Spec => []TypeOK
<1>1. IInv => TypeOK
  BY DEF IInv
<1>2. QED
  BY <1>1, Inductive, PTL

\* guest_allowance: whatever the number of a guest's requests that run at
\* once, single or batch, and wherever they fail, retry or die, the guest has
\* no more links inside the window than the limit.
THEOREM GuestQuotaHolds == Spec => []QuotaHeld
<1>1. IInv => QuotaHeld
  BY DEF IInv
<1>2. QED
  BY <1>1, Inductive, PTL

\* create_short_link, batch_create_links: a code in an answer, found or new,
\* names a committed link of that URL for that caller, although it was looked
\* up or planned many steps and perhaps several lost races before.
THEOREM AnswersNameStoredLinks == Spec => []AnswerIsStored
<1>1. ASSUME IInv
      PROVE  AnswerIsStored
  <2>1. SUFFICES ASSUME NEW w \in Workers, task[w].pc = "reply", NEW i \in DOMAIN task[w].list,
                        Answer(w, i) \cap {"found", "new"} # {}
                 PROVE  LinkOf(CodeFor(w, task[w].list[i]), task[w].list[i], task[w].who)
    BY DEF AnswerIsStored, LinkOf
  <2>2. Named(task[w])
    BY <1>1 DEF IInv, Fine
  <2>3. CASE task[w].list[i] \in DOMAIN task[w].found
    BY <2>2, <2>3 DEF Named, CodeFor
  <2>4. CASE task[w].list[i] \notin DOMAIN task[w].found
    <3>1. task[w].list[i] \in DOMAIN task[w].plan
      BY <2>1, <2>4 DEF Answer
    <3>2. QED
      BY <2>1, <2>2, <2>4, <3>1 DEF Named, CodeFor
  <2>5. QED
    BY <2>3, <2>4
<1>2. QED
  BY <1>1, Inductive, PTL

\* _resolve_collisions: the codes chosen for one request differ, round after
\* round, so save_many never loses a race against its own batch.
THEOREM CodesDiffer == Spec => []CodesApart
<1>1. IInv => CodesApart
  BY DEF IInv, Fine, Planned, CodesApart
<1>2. QED
  BY <1>1, Inductive, PTL

\* batch_create_links: the answer says exactly one thing of every position of
\* the list, in whatever way found, refused and created were told apart.
THEOREM EveryPositionAnswered == Spec => []AnswersEveryUrl
<1>1. ASSUME IInv
      PROVE  AnswersEveryUrl
  <2>1. SUFFICES ASSUME NEW w \in Workers, task[w].pc = "reply", NEW i \in DOMAIN task[w].list
                 PROVE  Cardinality(Answer(w, i)) = 1
    BY DEF AnswersEveryUrl
  <2>2. PICK k, u : k = task[w] /\ u = k.list[i]
    OBVIOUS
  <2>3. /\ k \in Task /\ u \in Range(k.list) /\ DOMAIN k.plan \subseteq k.todo
        /\ GroupsOf(k.list) = DOMAIN k.found \cup k.todo \cup k.refused
        /\ DOMAIN k.found \cap k.todo = {} /\ DOMAIN k.found \cap k.refused = {}
        /\ k.todo \cap k.refused = {}
    BY <1>1, <2>1, <2>2 DEF IInv, TypeOK, Fine, Sorted, Planned, Range
  <2>4. \E x : Answer(w, i) = {x}
    <3>1. CASE u = Bad
      BY <2>2, <3>1 DEF Answer
    <3>2. CASE u # Bad /\ u \in DOMAIN k.found
      <4>1. Answer(w, i) = {"found"}
        BY <2>2, <2>3, <3>2 DEF Answer
      <4>2. QED
        BY <4>1
    <3>3. CASE u # Bad /\ u \in k.refused
      <4>1. Answer(w, i) = {"quota"}
        BY <2>2, <2>3, <3>3 DEF Answer
      <4>2. QED
        BY <4>1
    <3>4. CASE u # Bad /\ u \in DOMAIN k.plan
      <4>1. Answer(w, i) = {"new"}
        BY <2>2, <2>3, <3>4 DEF Answer
      <4>2. QED
        BY <4>1
    <3>5. CASE u # Bad /\ u \in k.todo \ DOMAIN k.plan
      <4>1. Answer(w, i) = {"not stored"}
        BY <2>2, <2>3, <3>5 DEF Answer
      <4>2. QED
        BY <4>1
    <3>6. QED
      BY <2>3, <3>1, <3>2, <3>3, <3>4, <3>5 DEF GroupsOf
  <2>5. QED
    BY <2>4, FS_Singleton
<1>2. QED
  BY <1>1, Inductive, PTL
=============================================================================
