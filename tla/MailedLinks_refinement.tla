----------------------- MODULE MailedLinks_refinement -----------------------
(***************************************************************************)
(* MailedLinks implements OneTimeLink: the fate of every link, read off    *)
(* the tables, moves only as a one-time link may.                          *)
(***************************************************************************)
EXTENDS MailedLinks_proofs

-----------------------------------------------------------------------------
(* The fate of a link, and the ways it moves. *)

Held(t) == \E w \in Workers: Claimed(task[w]) /\ task[w].token = t

Usable(t) == t \in rows \ used /\ (t \notin expired \/ Held(t))

\* The fate of every link in one function: the refinement mapping.
Fate == [t \in Tokens |-> Phase(t)]

Faded(t) == Phase(t)' = Phase(t) \/ (Phase(t) = "live" /\ Phase(t)' = "dead")

LEMMA PhaseIs ==
    ASSUME NEW t
    PROVE  /\ grants[t] > 0 => Phase(t) = "spent"
           /\ ~(grants[t] > 0) /\ t >= nextToken => Phase(t) = "unissued"
           /\ ~(grants[t] > 0) /\ ~(t >= nextToken) /\ Usable(t) => Phase(t) = "live"
           /\ ~(grants[t] > 0) /\ ~(t >= nextToken) /\ ~Usable(t) => Phase(t) = "dead"
BY DEF Phase, Usable, Held

LEMMA PhaseIsThen ==
    ASSUME NEW t
    PROVE  /\ grants'[t] > 0 => Phase(t)' = "spent"
           /\ ~(grants'[t] > 0) /\ t >= nextToken' => Phase(t)' = "unissued"
           /\ ~(grants'[t] > 0) /\ ~(t >= nextToken') /\ Usable(t)' => Phase(t)' = "live"
           /\ ~(grants'[t] > 0) /\ ~(t >= nextToken') /\ ~Usable(t)' => Phase(t)' = "dead"
BY DEF Phase, Usable, Held

\* A step that neither accepts nor issues t, and brings nothing back to life.
LEMMA Fades ==
    ASSUME NEW t, grants'[t] = grants[t], t >= nextToken' <=> t >= nextToken,
           Usable(t)' => Usable(t)
    PROVE  Faded(t)
BY PhaseIs, PhaseIsThen DEF Faded

LEMMA AllFaded ==
    ASSUME \A t \in Tokens: Faded(t)
    PROVE  Promise!Next
<1> DEFINE S == {t \in Tokens: Phase(t) = "live" /\ Phase(t)' = "dead"}
<1>1. Fate' = [s \in Tokens |-> IF s \in S THEN "dead" ELSE Fate[s]]
  BY DEF Faded, Fate
<1>2. S \subseteq {t \in Tokens: Fate[t] = "live"}
  BY DEF Fate
<1> HIDE DEF S
<1> QED
  BY <1>1, <1>2 DEF Promise!Next, Promise!Retire, Promise!LiveLinks, Fate

LEMMA OneMoved ==
    ASSUME NEW t \in Tokens,
           \/ Phase(t) = "unissued" /\ Phase(t)' = "live"
           \/ Phase(t) = "live" /\ Phase(t)' = "spent",
           \A s \in Tokens \ {t}: Faded(s)
    PROVE  Promise!Next
<1> DEFINE S == {s \in Tokens: Phase(s) = "live" /\ Phase(s)' = "dead"}
           p == Phase(t)'
<1>1. Fate' = [s \in Tokens |-> IF s = t THEN p ELSE IF s \in S THEN "dead" ELSE Fate[s]]
  BY DEF Faded, Fate
<1>2. S \subseteq {s \in Tokens: Fate[s] = "live"}
  BY DEF Fate
<1>3. (Fate[t] = "unissued" /\ p = "live") \/ (Fate[t] = "live" /\ p = "spent")
  BY DEF Fate
<1> HIDE DEF S, p
<1>4. Promise!Issue(t, S) \/ Promise!Accept(t, S)
  BY <1>1, <1>3 DEF Promise!Issue, Promise!Accept, Promise!Move, Fate
<1>5. S \in SUBSET Promise!LiveLinks
  BY <1>2 DEF Promise!LiveLinks, Fate
<1> QED
  BY <1>4, <1>5 DEF Promise!Next

\* Only the claim of a live link makes a request hold one.
LEMMA TaskFades ==
    ASSUME TypeOK, NEW w \in Workers, NEW k \in Task, Become(w, k),
           UNCHANGED <<links, ghosts>>,
           Claimed(k) => \/ Claimed(task[w]) /\ task[w].token = k.token
                         \/ Claimable(k.token)
    PROVE  Promise!Next
<1>1. /\ rows' = rows /\ used' = used /\ expired' = expired /\ nextToken' = nextToken
      /\ grants' = grants
  BY DEF links, ghosts
<1>2. /\ task'[w] = k
      /\ \A v \in Workers: v # w => task'[v] = task[v]
  BY BecomeTyped
<1>3. ASSUME NEW t \in Tokens, Usable(t)'
      PROVE  Usable(t)
  <2>1. t \in rows \ used
    BY <1>1, <1>3 DEF Usable
  <2>2. CASE t \notin expired
    BY <2>1, <2>2 DEF Usable
  <2>3. CASE t \in expired
    <3>1. PICK v \in Workers: Claimed(task'[v]) /\ task'[v].token = t
      BY <1>1, <1>3, <2>3 DEF Usable, Held, Claimed
    <3>2. CASE v # w
      BY <1>2, <2>1, <3>1, <3>2 DEF Usable, Held
    <3>3. CASE v = w
      BY <1>2, <2>1, <2>3, <3>1, <3>3 DEF Usable, Held, Claimable
    <3> QED
      BY <3>2, <3>3
  <2> QED
    BY <2>2, <2>3
<1>4. \A t \in Tokens: Faded(t)
  BY <1>1, <1>3, Fades
<1> QED
  BY <1>4, AllFaded

LEMMA FinishFades ==
    ASSUME TypeOK, NEW w \in Workers, Finish(w), UNCHANGED <<links, ghosts>>
    PROVE  Promise!Next
<1>1. ~Claimed(Idle)
  BY DEF Claimed, Idle
<1> QED
  BY <1>1, IdleTyped, TaskFades DEF Finish

\* A request moves on without touching a table: only Claim takes hold of a
\* link, and only of a live one.
LEMMA QuietMoveKeepsPromise ==
    ASSUME IInv, NEW w \in Workers,
           \/ LookUp(w) \/ FindByEmail(w) \/ InvalidateForUser(w)
           \/ Claim(w) \/ FindById(w) \/ SaveAccount(w)
    PROVE  Promise!Next
<1>0. TypeOK /\ UNCHANGED <<links, ghosts>>
  BY DEF IInv, LookUp, FindByEmail, InvalidateForUser, Claim, FindById, SaveAccount
<1>1. CASE Finish(w)
  BY <1>0, <1>1, FinishFades
<1>2. ASSUME NEW k \in Task, Become(w, k), k.pc \in {"find", "insert", "notice", "snapshot", "issue"}
      PROVE  Promise!Next
  BY <1>0, <1>2, TaskFades DEF Claimed
<1>3. CASE LookUp(w) /\ ~Finish(w)
  <2> DEFINE k == [task[w] EXCEPT !.pc = "find", !.address = addr[task[w].user]]
  <2>1. task[w].user \in users /\ Become(w, k)
    BY <1>3 DEF LookUp
  <2>2. k \in Task /\ k.pc = "find"
    <3>1. addr[task[w].user] \in Addresses \cup {None}
      BY <1>0, <2>1 DEF TypeOK
    <3> QED
      BY <1>0, <3>1, Typed DEF Task, Pcs
  <2> HIDE DEF k
  <2> QED
    BY <1>2, <2>1, <2>2
<1>4. CASE FindByEmail(w) /\ ~Finish(w)
  <2>1. ASSUME NEW p \in {"insert", "notice"}, Become(w, [task[w] EXCEPT !.pc = p])
        PROVE  Promise!Next
    <3> DEFINE k == [task[w] EXCEPT !.pc = p]
    <3>1. k \in Task /\ k.pc = p
      BY <1>0, Typed DEF Task, Pcs
    <3> HIDE DEF k
    <3> QED
      BY <1>2, <2>1, <3>1 DEF k
  <2>2. ASSUME NEW u \in Holder(task[w].address),
               Become(w, [task[w] EXCEPT !.pc = "snapshot", !.user = u])
        PROVE  Promise!Next
    <3> DEFINE k == [task[w] EXCEPT !.pc = "snapshot", !.user = u]
    <3>0. u \in 0..MaxIds
      BY <1>0, BoundsAssumption DEF Holder, TypeOK, Ids
    <3>1. k \in Task /\ k.pc = "snapshot"
      BY <1>0, <3>0, Typed DEF Task, Pcs
    <3> HIDE DEF k
    <3> QED
      BY <1>2, <2>2, <3>1 DEF k
  <2> QED
    BY <1>4, <2>1, <2>2 DEF FindByEmail
<1>5. CASE InvalidateForUser(w)
  <2> DEFINE S == Outstanding(task[w].user, KindOf(task[w].op))
             k == [task[w] EXCEPT !.pc = "issue", !.seen = S]
  <2>1. S \subseteq Tokens /\ Become(w, k)
    BY <1>0, <1>5, SubsetsTyped DEF InvalidateForUser
  <2> HIDE DEF S
  <2>2. k \in Task /\ k.pc = "issue"
    BY <1>0, <2>1, Typed DEF Task, Pcs
  <2> HIDE DEF k
  <2> QED
    BY <1>2, <2>1, <2>2
<1>6. CASE Claim(w) /\ ~Finish(w)
  <2> DEFINE t == task[w].token
             k == [task[w] EXCEPT !.pc = "account", !.user = of[t]]
  <2>1. Claimable(t) /\ Become(w, k)
    BY <1>6 DEF Claim
  <2>2. k \in Task /\ k.token = t
    <3>1. of[t] \in 0..MaxIds
      BY <1>0, <2>1 DEF TypeOK, Claimable
    <3> QED
      BY <1>0, <3>1, Typed DEF Task, Pcs
  <2> HIDE DEF k
  <2> QED
    BY <1>0, <2>1, <2>2, TaskFades
<1>7. CASE FindById(w) /\ ~Finish(w)
  <2> DEFINE e == Entity(task[w].op, task[w].user)
             k == [task[w] EXCEPT !.pc = "save", !.entity = e]
  <2>1. task[w].pc = "account" /\ Become(w, k)
    BY <1>7 DEF FindById
  <2>2. e \subseteq Flags
    BY <1>0, Typed, EntityLoaded
  <2> HIDE DEF e
  <2>3. k \in Task /\ k.token = task[w].token /\ k.op = task[w].op
    BY <1>0, <2>2, Typed DEF Task, Pcs
  <2> HIDE DEF k
  <2>4. Claimed(k) => Claimed(task[w])
    BY <2>1, <2>3 DEF Claimed
  <2> QED
    BY <1>0, <2>1, <2>3, <2>4, TaskFades
<1>8. CASE SaveAccount(w) /\ ~Finish(w)
  <2> DEFINE S == Outstanding(task[w].user, KindOf(task[w].op)) \ {task[w].token}
  <2>0. S \subseteq Tokens
    BY <1>0, SubsetsTyped
  <2>1. PICK b \in {"both", "one"}:
            Become(w, [task[w] EXCEPT !.pc = "retire", !.writes = b, !.seen = S])
    BY <1>8 DEF SaveAccount
  <2> HIDE DEF S
  <2> DEFINE k == [task[w] EXCEPT !.pc = "retire", !.writes = b, !.seen = S]
  <2>2. k \in Task /\ k.token = task[w].token /\ k.op = task[w].op
    BY <1>0, <2>0, Typed DEF Task, Pcs
  <2>3. task[w].pc = "save"
    BY <1>8 DEF SaveAccount
  <2>4. Become(w, k)
    BY <2>1
  <2> HIDE DEF k
  <2>5. Claimed(k) => Claimed(task[w])
    BY <2>2, <2>3 DEF Claimed
  <2> QED
    BY <1>0, <2>2, <2>4, <2>5, TaskFades
<1> QED
  BY <1>1, <1>3, <1>4, <1>5, <1>6, <1>7, <1>8

\* Writing the row of a new link issues it; the links retired in the same
\* transaction die.
LEMMA SaveLinkKeepsPromise ==
    ASSUME IInv, NEW w \in Workers, NEW u, NEW kd, SaveLink(w, u, kd),
           used \subseteq used', used' \subseteq rows, expired' = expired, grants' = grants
    PROVE  Promise!Next
<1>0. TypeOK /\ Numbered /\ SpentForGood
  BY DEF IInv, Tables
<1> PICK t \in Tokens: t = nextToken
  BY DEF SaveLink
<1>1. rows' = rows \cup {t} /\ nextToken' = t + 1
  BY DEF SaveLink
<1>2. t \notin rows /\ grants[t] = 0
  BY <1>0, <1>1 DEF Numbered, SpentForGood, Tokens
<1>3. Phase(t) = "unissued"
  <2>1. ~(grants[t] > 0) /\ t >= nextToken
    BY <1>1, <1>2 DEF Tokens
  <2> QED
    BY <2>1, PhaseIs
<1>4. Phase(t)' = "live"
  <2>1. Usable(t)'
    BY <1>0, <1>1, <1>2 DEF Usable, Numbered
  <2>2. ~(grants'[t] > 0) /\ ~(t >= nextToken')
    BY <1>1, <1>2 DEF Tokens
  <2> QED
    BY <2>1, <2>2, PhaseIsThen
<1>5. \A v \in Workers: Claimed(task'[v]) => Claimed(task[v]) /\ task'[v].token = task[v].token
  <2> SUFFICES ASSUME NEW v \in Workers, Claimed(task'[v])
               PROVE  Claimed(task[v]) /\ task'[v].token = task[v].token
    OBVIOUS
  <2>0. task[v] \in Task /\ task[w] \in Task
    BY <1>0, Typed
  <2>1. CASE v = w
    <3>1. task'[w] = [task[w] EXCEPT !.pc = "handoff", !.token = nextToken]
      BY DEF SaveLink, IssuedBy
    <3>2. task'[w].pc = "handoff"
      BY <2>0, <3>1 DEF Task
    <3> QED
      BY <2>1, <3>2 DEF Claimed
  <2>2. CASE v # w
    <3>1. task'[v] = IF task[v].pc = "idle" THEN task[v]
                     ELSE [task[v] EXCEPT !.met = @ \cup {nextToken}]
      BY <2>2 DEF SaveLink, IssuedBy
    <3>2. task'[v].pc = task[v].pc /\ task'[v].op = task[v].op /\ task'[v].token = task[v].token
      BY <2>0, <3>1 DEF Task
    <3> QED
      BY <3>2 DEF Claimed
  <2> QED
    BY <2>1, <2>2
<1>6. ASSUME NEW s \in Tokens \ {t}
      PROVE  Faded(s)
  <2>1. Usable(s)' => Usable(s)
    BY <1>1, <1>5 DEF Usable, Held, Claimed
  <2>2. s >= nextToken' <=> s >= nextToken
    BY <1>1 DEF Tokens
  <2> QED
    BY <2>1, <2>2, Fades
<1> QED
  BY <1>3, <1>4, <1>6, OneMoved

\* A commit accepts the link its request holds, if it holds one.
LEMMA CommitsKeepsPromise ==
    ASSUME IInv, NEW w \in Workers, NEW b, NEW R, Commits(w, task[w], b, R)
    PROVE  Promise!Next
<1> DEFINE k == task[w]
<1>0. TypeOK /\ Numbered /\ SpentForGood /\ Relies(k)
  BY DEF IInv, Tables, AllRely
<1>1. /\ k.pc \in {"save", "retire"}
      /\ used' = used \cup R \cup {t \in {k.token}: k.op \in {"verify", "reset"}}
      /\ grants' = [t \in Tokens |-> IF k.op \in {"verify", "reset"} /\ t = k.token
                                     THEN grants[t] + 1 ELSE grants[t]]
      /\ rows' = rows /\ expired' = expired /\ nextToken' = nextToken
  BY DEF Commits
<1>2. Claimed(k) <=> k.op \in {"verify", "reset"}
  BY <1>1 DEF Claimed
<1>3. /\ task'[w] = Idle
      /\ \A v \in Workers: v # w => task'[v] = task[v]
  BY <1>0, IdleTyped, BecomeTyped DEF Commits, Finish
<1>4. ASSUME NEW s \in Tokens, ~(Claimed(k) /\ s = k.token)
      PROVE  Faded(s)
  <2>1. grants'[s] = grants[s]
    BY <1>1, <1>2, <1>4
  <2>2. Usable(s)' => Usable(s)
    <3>1. ~Claimed(task'[w])
      BY <1>3, IdleQuiet, QuietRelies
    <3>2. \A v \in Workers: Claimed(task'[v]) => task'[v] = task[v]
      BY <1>3, <3>1
    <3> QED
      BY <1>1, <3>2 DEF Usable, Held, Claimed
  <2> QED
    BY <1>1, <2>1, <2>2, Fades
<1>5. CASE ~Claimed(k)
  BY <1>4, <1>5, AllFaded
<1>6. CASE Claimed(k)
  <2>1. k.token \in rows \ used /\ k.token \in Tokens
    BY <1>0, <1>6 DEF Relies, TypeOK
  <2>2. grants[k.token] = 0 /\ k.token < nextToken
    BY <1>0, <2>1 DEF SpentForGood, Numbered
  <2>3. Usable(k.token)
    BY <1>6, <2>1 DEF Usable, Held
  <2>4. Phase(k.token) = "live"
    <3>1. ~(grants[k.token] > 0) /\ ~(k.token >= nextToken)
      BY <1>0, <2>1, <2>2 DEF TypeOK, Tokens
    <3> QED
      BY <2>3, <3>1, PhaseIs
  <2>5. grants'[k.token] > 0
    BY <1>1, <1>2, <1>6, <2>1, <2>2
  <2> DEFINE t == k.token
  <2>6. \A s \in Tokens \ {t}: Faded(s)
    BY <1>4
  <2>7. PICK x \in Tokens: x = t
    BY <2>1
  <2>8. grants'[x] > 0 /\ Phase(x) = "live" /\ \A s \in Tokens \ {x}: Faded(s)
    BY <2>4, <2>5, <2>6, <2>7
  <2>9. Phase(x)' = "spent"
    BY <2>8, PhaseIsThen
  <2> QED
    BY <2>8, <2>9, OneMoved
<1> QED
  BY <1>5, <1>6

\* Administrators, the sweep and time only let links die.
LEMMA OutsideKeepsPromise ==
    ASSUME IInv, Outside \/ UNCHANGED vars
    PROVE  Promise!Next
<1>0. TypeOK /\ Numbered
  BY DEF IInv, Tables
<1> DEFINE Shrinks == /\ task' = task /\ grants' = grants /\ nextToken' = nextToken
                     /\ rows' \ used' \subseteq rows \ used
                     /\ rows' \ (used' \cup expired') \subseteq rows \ (used \cup expired)
<1>1. Shrinks
  <2>1. ASSUME NEW a \in Addresses, CreateUser(a) PROVE Shrinks
    BY <2>1 DEF CreateUser, links
  <2>2. ASSUME NEW u \in Ids, DeleteUser(u) PROVE Shrinks
    BY <2>2 DEF DeleteUser, RemoveLinks
  <2>3. ASSUME NEW u \in Ids, Age(u) PROVE Shrinks
    BY <2>3 DEF Age, links, ghosts
  <2>4. CASE CleanUnverifiedAccounts
    BY <2>4 DEF CleanUnverifiedAccounts, RemoveLinks, ghosts
  <2>5. CASE CleanPasswordResets
    BY <2>5 DEF CleanPasswordResets, RemoveLinks, ghosts
  <2>6. ASSUME NEW t \in Tokens, Expire(t) PROVE Shrinks
    BY <2>6 DEF Expire, ghosts
  <2>7. CASE UNCHANGED vars
    BY <2>7 DEF vars, links, ghosts
  <2> QED
    BY <2>1, <2>2, <2>3, <2>4, <2>5, <2>6, <2>7 DEF Outside
<1>2. \A t \in Tokens: Usable(t)' => Usable(t)
  BY <1>1 DEF Usable, Held, Claimed
<1>3. \A t \in Tokens: Faded(t)
  BY <1>1, <1>2, Fades
<1> QED
  BY <1>3, AllFaded

LEMMA StepKeepsPromise == IInv /\ [Next]_vars => Promise!Next
<1> SUFFICES ASSUME IInv, [Next]_vars PROVE Promise!Next
  OBVIOUS
<1>0. TypeOK
  BY DEF IInv
<1>1. ASSUME NEW w \in Workers, Request(w) \/ Step(w) \/ BreakDeadlock(w) \/ Crash(w)
      PROVE  Promise!Next
  <2>1. CASE Request(w)
    <3>1. PICK k \in Task: Start(w, k) /\ ~Claimed(k)
      BY <2>1, RequestShape
    <3> QED
      BY <1>0, <3>1, TaskFades DEF Start
  <2>2. CASE \/ LookUp(w) \/ FindByEmail(w) \/ InvalidateForUser(w)
             \/ Claim(w) \/ FindById(w) \/ SaveAccount(w)
    BY <2>2, QuietMoveKeepsPromise
  <2>3. CASE HandOff(w) \/ SendNotice(w) \/ BreakDeadlock(w) \/ Crash(w)
    BY <1>0, <2>3, FinishFades DEF HandOff, SendNotice, BreakDeadlock, Crash
  <2>4. CASE InsertAccount(w)
    <3>1. CASE UNCHANGED <<accounts, links, ghosts>> /\ Finish(w)
      BY <1>0, <3>1, FinishFades
    <3>2. CASE UNCHANGED <<accounts, links, ghosts>> /\ Become(w, [task[w] EXCEPT !.pc = "notice"])
      <4> DEFINE k == [task[w] EXCEPT !.pc = "notice"]
      <4>1. k \in Task /\ ~Claimed(k) /\ Become(w, k)
        BY <1>0, <3>2, Typed DEF Task, Pcs, Claimed
      <4> HIDE DEF k
      <4> QED
        BY <1>0, <3>2, <4>1, TaskFades
    <3>3. CASE SaveLink(w, nextId, "confirm") /\ UNCHANGED <<used, expired, grants>>
      <4>1. used' \subseteq rows
        BY <3>3 DEF IInv, Tables, Numbered
      <4> QED
        BY <3>3, <4>1, SaveLinkKeepsPromise
    <3> QED
      BY <2>4, <3>1, <3>2, <3>3 DEF InsertAccount
  <2>5. CASE IssueLink(w)
    <3>1. CASE Finish(w) /\ UNCHANGED <<accounts, links, ghosts>>
      BY <1>0, <3>1, FinishFades
    <3>2. CASE /\ used' = used \cup Retired(task[w])
               /\ SaveLink(w, task[w].user, KindOf(task[w].op))
               /\ UNCHANGED <<expired, grants>>
      <4>1. used \subseteq used' /\ used' \subseteq rows
        BY <3>2 DEF IInv, Tables, Numbered, Retired
      <4> QED
        BY <3>2, <4>1, SaveLinkKeepsPromise
    <3> QED
      BY <2>5, <3>1, <3>2 DEF IssueLink
  <2>6. CASE SaveUser(w)
    BY <1>0, <2>6, SaveUserCommits, CommitsKeepsPromise, FinishFades DEF links, ghosts
  <2>7. CASE CommitAccount(w)
    BY <2>7, CommitAccountCommits, CommitsKeepsPromise
  <2> QED
    BY <1>1, <2>1, <2>2, <2>3, <2>4, <2>5, <2>6, <2>7 DEF Step
<1>2. CASE Outside \/ UNCHANGED vars
  BY <1>2, OutsideKeepsPromise
<1> QED
  BY <1>1, <1>2 DEF Next

\* The requests, the sweep, time and the crashes together implement the
\* one-time link: issued once, accepted at most once and only while live, final
\* once spent or dead.
THEOREM LinksKeepPromise == Spec => KeepsPromise
<1>1. Init => Promise!Init
  <2> SUFFICES ASSUME Init PROVE Promise!Init
    OBVIOUS
  <2>1. ASSUME NEW t \in Tokens PROVE Phase(t) = "unissued"
    <3>1. ~(grants[t] > 0) /\ t >= nextToken
      BY DEF Init, Tokens
    <3> QED
      BY <3>1, PhaseIs
  <2> QED
    BY <2>1 DEF Promise!Init
<1>2. IInv /\ [Next]_vars => [Promise!Next]_Fate
  BY StepKeepsPromise
<1> QED
  BY <1>1, <1>2, Inductive, PTL DEF Spec, KeepsPromise, Promise!Spec, Fate

=============================================================================
