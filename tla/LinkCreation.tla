---------------------------- MODULE LinkCreation ----------------------------
(***************************************************************************)
(* Creating short links, one at a time and in batches, for owners and for  *)
(* guests with a quota.  A request groups its URLs, looks for live links   *)
(* of the caller, takes the guest's advisory lock and counts what is left  *)
(* of the quota, picks codes, inserts the rows one by one and commits.     *)
(* The unique index on the code is the arbiter: an insert of a code that   *)
(* is taken aborts the attempt, an insert of a code another transaction is *)
(* about to take waits for it, and two transactions that wait for each     *)
(* other are parted by the database.                                       *)
(***************************************************************************)
EXTENDS Naturals, Sequences, FiniteSets, FiniteSetsExt, Functions

CONSTANTS Workers, Owners, Guests, Urls, Bad,
          Codes,          \* the short codes
          CodeOf,         \* CodeOf[u][a]: the code of u salted with attempt a
          Lists,          \* the lists of URLs a batch may carry
          Chosen,         \* the codes a caller may ask for
          GuestLimit,     \* guest_link_limit
          MaxAttempts,    \* max_collision_attempts
          MaxRequests,    \* bound: requests in a behaviour
          None

Callers == Owners \cup Guests

\* A code has a bounded length over a finite alphabet; a URL the grouper
\* refuses is not one it groups; every attempt of a URL has a code.
ASSUME CodesAssumption == IsFiniteSet(Codes) /\ Chosen \subseteq Codes
ASSUME UrlsAssumption ==
  /\ Bad \notin Urls /\ Lists \subseteq Seq(Urls \cup {Bad})
  /\ CodeOf \in [Urls -> [0 .. MaxAttempts -> Codes]]
ASSUME LimitsAssumption == GuestLimit \in Nat /\ MaxAttempts \in Nat \ {0} /\ MaxRequests \in Nat
ASSUME NoneAssumption ==
  /\ None \notin Workers \cup Callers \cup Codes
  /\ None \notin [url : Urls, who : Callers, by : Workers \cup {None},
                  live : BOOLEAN, recent : BOOLEAN]

VARIABLES
  rows,      \* per code: the row that holds it, or None
  lock,      \* per guest: the worker that holds the advisory lock, or None
  task,      \* per worker: the request it serves
  requests

vars == <<rows, lock, task, requests>>

Nothing == [u \in {} |-> None]

\* The locals of a request.  The groups that remain to be created, todo, are
\* kept as a set: their order is the order of list.
Idle == [pc |-> "idle", who |-> None, list |-> << >>, one |-> FALSE, code |-> None,
         attempt |-> 0, todo |-> {}, found |-> Nothing, refused |-> {},
         cand |-> Nothing, salt |-> Nothing, occupied |-> {}, plan |-> Nothing,
         done |-> {}]

Init ==
  /\ rows = [c \in Codes |-> None] /\ lock = [g \in Guests |-> None]
  /\ task = [w \in Workers |-> Idle] /\ requests = 0

\* A row: by is the worker whose transaction it belongs to until it is
\* committed; recent says that it is inside the quota's window.
Row(u, who, w) == [url |-> u, who |-> who, by |-> w, live |-> TRUE, recent |-> TRUE]

Stored(c) == rows[c] # None /\ rows[c].by = None
Mine(w, c) == rows[c] # None /\ rows[c].by = w
Become(w, r) == task' = [task EXCEPT ![w] = r]

-----------------------------------------------------------------------------
(* Requests *)

\* UrlGrouper.group: one group per distinct valid URL, in the order met.
GroupsOf(list) == Range(list) \ {Bad}

Place(list, u) == Min({i \in DOMAIN list : list[i] = u})

Before(list, T, u) == {v \in T : Place(list, v) < Place(list, u)}

CreateBatch(w, who, list) ==
  /\ task[w].pc = "idle" /\ requests < MaxRequests /\ requests' = requests + 1
  /\ Become(w, [Idle EXCEPT !.pc = IF GroupsOf(list) = {} THEN "reply" ELSE "look",
                            !.who = who, !.list = list])
  /\ UNCHANGED <<rows, lock>>

\* A single creation, with a code of the caller's choice or without.
CreateShortLink(w, who, u, code) ==
  /\ task[w].pc = "idle" /\ requests < MaxRequests /\ requests' = requests + 1
  /\ Become(w, [Idle EXCEPT !.pc = "look", !.who = who, !.list = <<u>>,
                            !.one = TRUE, !.code = code])
  /\ UNCHANGED <<rows, lock>>

\* The live links of a URL in the caller's scope.  A cached link counts only
\* when the database confirms it, and it need not be the oldest.
LiveLinks(u, who) ==
  {c \in Codes : Stored(c) /\ rows[c].url = u /\ rows[c].who = who /\ rows[c].live}

\* A batch of a guest asks for the allowance even when nothing is missing.
LookUp(w) ==
  /\ task[w].pc = "look"
  /\ LET groups == GroupsOf(task[w].list)
         hit == {u \in groups : LiveLinks(u, task[w].who) # {}}
     IN \E f \in [hit -> Codes] :
          /\ \A u \in hit : f[u] \in LiveLinks(u, task[w].who)
          /\ Become(w, [task[w] EXCEPT
               !.found = f, !.todo = groups \ hit,
               !.pc = IF task[w].who \in Guests /\ (hit # groups \/ ~task[w].one)
                      THEN "lock" ELSE "pick"])
  /\ UNCHANGED <<rows, lock, requests>>

-----------------------------------------------------------------------------
(* guest_allowance *)

\* Slip: the count is taken without the lock.
LockGuestQuota_None(w) ==
  /\ task[w].pc = "lock"
  /\ Become(w, [task[w] EXCEPT !.pc = "count"])
  /\ UNCHANGED <<rows, lock, requests>>

LockGuestQuota(w) ==
  /\ task[w].pc = "lock" /\ lock[task[w].who] = None
  /\ lock' = [lock EXCEPT ![task[w].who] = w]
  /\ Become(w, [task[w] EXCEPT !.pc = "count"])
  /\ UNCHANGED <<rows, requests>>

Used(g) == {c \in Codes : Stored(c) /\ rows[c].who = g /\ rows[c].recent}

LinksLeft(g) == IF Cardinality(Used(g)) < GuestLimit
                THEN GuestLimit - Cardinality(Used(g)) ELSE 0

\* The first n of the groups T.
First(list, T, n) == {u \in T : Cardinality(Before(list, T, u)) < n}

\* A batch keeps the groups the allowance covers and refuses the rest; a
\* single creation is refused, and its transaction ends.
ApplyGuestQuota(w) ==
  /\ task[w].pc = "count"
  /\ LET keep == First(task[w].list, task[w].todo, LinksLeft(task[w].who))
     IN Become(w, [task[w] EXCEPT !.pc = "pick", !.todo = keep,
                                  !.refused = task[w].todo \ keep])
  /\ UNCHANGED <<rows, lock, requests>>

-----------------------------------------------------------------------------
(* Codes: BatchLinkCreator and _generate_unique_code *)

Candidates(w) ==
  [u \in task[w].todo |-> IF task[w].code # None THEN task[w].code ELSE CodeOf[u][0]]

PickCodes(w) ==
  /\ task[w].pc = "pick"
  /\ Become(w, [task[w] EXCEPT
       !.cand = Candidates(w), !.salt = [u \in task[w].todo |-> 0],
       !.pc = IF task[w].todo = {} THEN "commit" ELSE "resolve"])
  /\ UNCHANGED <<rows, lock, requests>>

\* What the index holds, what earlier rounds gave away, and what this round
\* gave to the groups before u.
Taken(w, u) ==
  LET t == task[w] IN
  t.occupied \cup {c \in Codes : Stored(c)}
    \cup {t.cand[v] : v \in Before(t.list, DOMAIN t.cand, u)}

\* The salted codes a group may try before the fresh ones: a single
\* creation counts the unsalted one among its attempts, a batch does not.
Salts(w) == IF task[w].one THEN MaxAttempts - 1 ELSE MaxAttempts

\* The groups whose candidate is free, and those with an attempt left.
Given(w) == {u \in DOMAIN task[w].cand : task[w].cand[u] \notin Taken(w, u)}
Again(w) == {u \in DOMAIN task[w].cand \ Given(w) :
               task[w].salt[u] + 1 <= Salts(w) + MaxAttempts}

\* One round of _resolve_collisions: every group whose candidate is free
\* gets it; the others try the next salt, and a fresh code after that; the
\* groups that have run out are dropped.
Resolved(w, fresh) ==
  LET t == task[w] IN
  [t EXCEPT
     !.plan = [u \in DOMAIN t.plan \cup Given(w) |->
                 IF u \in Given(w) THEN t.cand[u] ELSE t.plan[u]],
     !.occupied = t.occupied \cup {t.cand[u] : u \in DOMAIN t.cand},
     !.salt = [u \in Again(w) |-> t.salt[u] + 1],
     !.cand = [u \in Again(w) |-> IF t.salt[u] + 1 <= Salts(w)
                                  THEN CodeOf[u][t.salt[u] + 1] ELSE fresh[u]],
     !.pc = IF Again(w) = {} THEN "insert" ELSE "resolve"]

Resolve(w) ==
  /\ task[w].pc = "resolve"
  /\ task[w].code = None \/ Given(w) # {}
  /\ \E fresh \in [Again(w) -> Codes] : Become(w, Resolved(w, fresh))
  /\ UNCHANGED <<rows, lock, requests>>

\* The transaction ends without a trace and the lock goes with it.
Undo(w) ==
  /\ rows' = [c \in Codes |-> IF Mine(w, c) THEN None ELSE rows[c]]
  /\ lock' = [g \in Guests |-> IF lock[g] = w THEN None ELSE lock[g]]

\* LinkCodeTakenError: the code the caller chose belongs to another link.
RefuseTaken(w) ==
  /\ task[w].pc = "resolve" /\ task[w].code # None /\ Stored(task[w].code)
  /\ Become(w, [Idle EXCEPT !.pc = "error"])
  /\ Undo(w) /\ UNCHANGED requests

-----------------------------------------------------------------------------
(* save_many, commit and the answer *)

\* The rows go in in the order of the groups.
ToInsert(w) == DOMAIN task[w].plan \ task[w].done
NextUrl(w) == CHOOSE u \in ToInsert(w) :
                \A v \in ToInsert(w) : Place(task[w].list, u) <= Place(task[w].list, v)
NextCode(w) == task[w].plan[NextUrl(w)]
Inserting(w) == task[w].pc = "insert" /\ ToInsert(w) # {}

Insert(w) ==
  /\ Inserting(w) /\ rows[NextCode(w)] = None
  /\ rows' = [rows EXCEPT ![NextCode(w)] = Row(NextUrl(w), task[w].who, w)]
  /\ Become(w, [task[w] EXCEPT !.done = @ \cup {NextUrl(w)}])
  /\ UNCHANGED <<lock, requests>>

Flushed(w) ==
  /\ task[w].pc = "insert" /\ ToInsert(w) = {}
  /\ Become(w, [task[w] EXCEPT !.pc = "commit"])
  /\ UNCHANGED <<rows, lock, requests>>

\* Slip: a lost race is answered with what the lost attempt had planned.
AfterConflict_Reply(w) == [task[w] EXCEPT !.pc = "reply"]

\* LinkConflictError: the whole lookup is done again in a new transaction,
\* MaxAttempts times in all.
AfterConflict(w) ==
  IF task[w].attempt + 1 < MaxAttempts
  THEN [Idle EXCEPT !.pc = "look", !.who = task[w].who, !.list = task[w].list,
                    !.one = task[w].one, !.code = task[w].code, !.attempt = task[w].attempt + 1]
  ELSE [Idle EXCEPT !.pc = "error"]

Conflict(w) ==
  /\ Inserting(w) /\ (Stored(NextCode(w)) \/ Mine(w, NextCode(w)))
  /\ Become(w, AfterConflict(w))
  /\ Undo(w) /\ UNCHANGED requests

Commit(w) ==
  /\ task[w].pc = "commit"
  /\ rows' = [c \in Codes |-> IF Mine(w, c) THEN [rows[c] EXCEPT !.by = None] ELSE rows[c]]
  /\ lock' = [g \in Guests |-> IF lock[g] = w THEN None ELSE lock[g]]
  /\ Become(w, [task[w] EXCEPT !.pc = "reply"])
  /\ UNCHANGED requests

\* What the answer says of the URL in position i.
Answer(w, i) ==
  LET t == task[w] u == t.list[i] IN
  CASE u = Bad -> {"invalid"}
    [] u # Bad -> (IF u \in DOMAIN t.found THEN {"found"} ELSE {})
                  \cup (IF u \in t.refused THEN {"quota"} ELSE {})
                  \cup (IF u \in DOMAIN t.plan THEN {"new"} ELSE {})
                  \cup (IF u \in t.todo \ DOMAIN t.plan THEN {"not stored"} ELSE {})

CodeFor(w, u) == IF u \in DOMAIN task[w].found THEN task[w].found[u] ELSE task[w].plan[u]

Reply(w) ==
  /\ task[w].pc \in {"reply", "error"}
  /\ Become(w, Idle)
  /\ UNCHANGED <<rows, lock, requests>>

-----------------------------------------------------------------------------
(* The database parts transactions that wait for each other; a process may *)
(* die; time passes.                                                       *)

\* The worker w waits for: the one about to take its code, or the holder of
\* its guest's lock.
WaitsFor(w) ==
  IF Inserting(w) /\ rows[NextCode(w)] # None /\ rows[NextCode(w)].by \notin {None, w}
  THEN rows[NextCode(w)].by
  ELSE IF task[w].pc = "lock" THEN lock[task[w].who] ELSE None

Deadlocked(w) ==
  /\ WaitsFor(w) # None
  /\ WaitsFor(WaitsFor(w)) = w

\* Slip: nobody looks for waits in a circle.
BreakDeadlock_Never(w) == FALSE /\ UNCHANGED vars

\* The error is not a lost race: it leaves the request as a failure.
BreakDeadlock(w) ==
  /\ Deadlocked(w)
  /\ Become(w, [Idle EXCEPT !.pc = "error"])
  /\ Undo(w) /\ UNCHANGED requests

Crash(w) ==
  /\ task[w].pc # "idle"
  /\ Become(w, Idle) /\ Undo(w) /\ UNCHANGED requests

Expire(c) ==
  /\ Stored(c) /\ rows[c].live
  /\ rows' = [rows EXCEPT ![c].live = FALSE]
  /\ UNCHANGED <<lock, task, requests>>

LeaveWindow(c) ==
  /\ Stored(c) /\ rows[c].recent
  /\ rows' = [rows EXCEPT ![c].recent = FALSE]
  /\ UNCHANGED <<lock, task, requests>>

\* One transaction: look up, charge the quota, pick codes, store, commit.
Attempt(w) ==
  \/ LookUp(w) \/ LockGuestQuota(w) \/ ApplyGuestQuota(w) \/ PickCodes(w)
  \/ Resolve(w) \/ RefuseTaken(w) \/ Insert(w) \/ Flushed(w) \/ Conflict(w) \/ Commit(w)

Step(w) == Attempt(w) \/ Reply(w) \/ BreakDeadlock(w)

Next ==
  \/ \E w \in Workers, who \in Callers :
       \/ \E list \in Lists : CreateBatch(w, who, list)
       \/ \E u \in Urls, code \in Chosen \cup {None} : CreateShortLink(w, who, u, code)
  \/ \E w \in Workers : Step(w) \/ Crash(w)
  \/ \E c \in Codes : Expire(c) \/ LeaveWindow(c)

Spec == Init /\ [][Next]_vars
FairSpec == Spec /\ \A w \in Workers : WF_vars(Step(w))

-----------------------------------------------------------------------------
(* Properties *)

Rows == [url : Urls, who : Callers, by : Workers \cup {None}, live : BOOLEAN, recent : BOOLEAN]
PerUrl(S) == UNION {[D -> S] : D \in SUBSET Urls}
Task == [pc : {"idle", "look", "lock", "count", "pick", "resolve", "insert", "commit",
               "reply", "error"},
         who : Callers \cup {None}, list : Seq(Urls \cup {Bad}), one : BOOLEAN,
         code : Chosen \cup {None}, attempt : 0 .. (MaxAttempts - 1),
         todo : SUBSET Urls, found : PerUrl(Codes), refused : SUBSET Urls,
         cand : PerUrl(Codes), salt : PerUrl(0 .. (2 * MaxAttempts)),
         occupied : SUBSET Codes, plan : PerUrl(Codes), done : SUBSET Urls]

\* Type invariant.
TypeOK ==
  /\ requests \in 0 .. MaxRequests
  /\ lock \in [Guests -> Workers \cup {None}]
  /\ rows \in [Codes -> Rows \cup {None}]
  /\ task \in [Workers -> Task]

\* A guest never has more links inside the window than the limit, however
\* many of the guest's requests run at once (guest_allowance, whose count
\* and the inserts that follow are one transaction under the lock).
QuotaHeld == \A g \in Guests : Cardinality(Used(g)) <= GuestLimit

\* The codes a batch is about to insert differ from one another, so that it
\* never loses a race against itself (_resolve_collisions).
CodesApart ==
  \A w \in Workers : \A u, v \in DOMAIN task[w].plan :
    u # v => task[w].plan[u] # task[w].plan[v]

\* A batch answers every position of its list, once: found, created, not
\* stored, refused for the quota, or invalid.
AnswersEveryUrl ==
  \A w \in Workers : task[w].pc = "reply" =>
    \A i \in DOMAIN task[w].list : Cardinality(Answer(w, i)) = 1

\* A code in an answer is a committed link of that URL, made for or found
\* for this caller, also when the request lost races on the way.
AnswerIsStored ==
  \A w \in Workers : task[w].pc = "reply" =>
    \A i \in DOMAIN task[w].list :
      Answer(w, i) \cap {"found", "new"} # {} =>
        LET c == CodeFor(w, task[w].list[i]) IN
          Stored(c) /\ rows[c].url = task[w].list[i] /\ rows[c].who = task[w].who

\* Every request is answered: one that waits for another's lock or code
\* is let go, by that transaction's end or by the database.
CreationsEnd == \A w \in Workers : (task[w].pc # "idle") ~> (task[w].pc = "idle")
=============================================================================
