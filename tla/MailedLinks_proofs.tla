------------------------- MODULE MailedLinks_proofs -------------------------
(***************************************************************************)
(* The safety properties of MailedLinks, for any number of workers,        *)
(* addresses, accounts and links.                                          *)
(***************************************************************************)
EXTENDS MailedLinks, TLAPS

-----------------------------------------------------------------------------
(* The inductive invariant. *)

\* Rows are numbered in the order they are written, what is used or expired
\* has a row, and the foreign key of a link's row names an account.
Numbered ==
    /\ \A t \in rows: t < nextToken /\ of[t] \in users
    /\ used \subseteq rows /\ expired \subseteq rows
    /\ \A u \in users: u < nextId

\* A link that was accepted once cannot be claimed again.
SpentForGood ==
    \A t \in Tokens: grants[t] # 0 =>
        grants[t] = 1 /\ t < nextToken /\ t \notin rows \ used

\* Why the address of u may count as confirmed.
Cause(u) ==
    \/ u \in vouched
    \/ \E t \in Tokens: grants[t] = 1 /\ of[t] = u /\ kind[t] = "confirm"

\* What a request may rely on between its statements.  A claimed link stays
\* unused and keeps its account; the UPDATE that retires links knows every
\* outstanding one or has met its issue; a loaded confirmation has a cause.
Relies(k) ==
    /\ k.pc \in {"claim", "handoff"} => k.token \in Tokens
    /\ k.pc = "claim" => k.op \in {"verify", "reset"}
    /\ k.pc \in {"account", "save", "retire"} /\ k.op \notin {"verify", "reset"}
         => k.token = 0
    /\ Claimed(k) => /\ k.token \in rows \ used
                     /\ k.user = of[k.token]
                     /\ kind[k.token] = KindOf(k.op)
    /\ k.pc = "retire" => k.op \in {"reset", "change", "confirm"} /\ k.user \in users
    /\ k.pc = "issue" => Outstanding(k.user, KindOf(k.op)) \subseteq k.seen \cup k.met
    /\ k.pc = "retire" =>
         Outstanding(k.user, KindOf(k.op)) \subseteq k.seen \cup k.met \cup {k.token}
    /\ k.pc \in {"save", "retire"} /\ k.op \in {"verify", "confirm"}
         => "verified" \in k.entity
    /\ k.pc \in {"save", "retire"} /\ k.op \notin {"verify", "confirm"}
         /\ "verified" \in k.entity => Cause(k.user)

AllRely == \A w \in Workers: Relies(task[w])

\* The row lock: no link is claimed by two requests.
ClaimsApart ==
    \A v, w \in Workers:
        v # w /\ Claimed(task[v]) /\ Claimed(task[w]) => task[v].token # task[w].token

\* What the tables and the history say, whatever the requests are doing.
Tables ==
    /\ Numbered
    /\ SpentForGood
    /\ OneAccountPerAddress
    /\ ConfirmedForCause
    /\ TwoLiveNeedOverlap
    /\ ConfirmedStays

IInv ==
    /\ TypeOK
    /\ AllRely
    /\ ClaimsApart
    /\ Tables

-----------------------------------------------------------------------------
(* The shape of the state. *)

LEMMA IdleTyped == Idle \in Task
BY BoundsAssumption DEF Idle, Task, Pcs, Ops

LEMMA Typed ==
    ASSUME TypeOK, NEW w \in Workers
    PROVE  /\ task[w] \in Task
           /\ task[w].pc \in Pcs /\ task[w].op \in Ops
           /\ task[w].address \in Addresses \cup {None}
           /\ task[w].user \in 0..MaxIds /\ task[w].token \in 0..MaxTokens
           /\ task[w].seen \in SUBSET Tokens /\ task[w].met \in SUBSET Tokens
           /\ task[w].entity \in SUBSET Flags
           /\ task[w].writes \in {"both", "one"}
<1>1. task[w] \in Task
  BY DEF TypeOK
<1> QED
  BY <1>1 DEF Task

LEMMA BecomeTyped ==
    ASSUME TypeOK, NEW w \in Workers, NEW k \in Task, Become(w, k)
    PROVE  /\ task' \in [Workers -> Task]
           /\ task'[w] = k
           /\ \A v \in Workers: v # w => task'[v] = task[v]
BY DEF TypeOK, Become

LEMMA SubsetsTyped ==
    ASSUME TypeOK, NEW u, NEW k
    PROVE  /\ Outstanding(u, k) \subseteq Tokens
           /\ Live(u, k) \subseteq Tokens
BY DEF TypeOK, Outstanding, Live

\* A request that has no row to write and none to find asks for nothing.
Quiet(k) == k.pc \in {"idle", "look", "find", "insert", "snapshot", "notice"}

LEMMA QuietRelies ==
    ASSUME NEW k, Quiet(k)
    PROVE  Relies(k) /\ ~Claimed(k)
BY DEF Quiet, Relies, Claimed

LEMMA IdleQuiet == Quiet(Idle)
BY DEF Quiet, Idle

-----------------------------------------------------------------------------
(* Steps that change nothing but what one request is doing. *)

LEMMA TablesKept ==
    ASSUME Tables, UNCHANGED <<accounts, links, ghosts>>
    PROVE  Tables'
<1>1. Numbered'
  BY DEF Tables, Numbered, accounts, links
<1>2. SpentForGood'
  BY DEF Tables, SpentForGood, links, ghosts
<1>3. OneAccountPerAddress'
  BY DEF Tables, OneAccountPerAddress, accounts
<1>4. ConfirmedForCause'
  BY DEF Tables, ConfirmedForCause, accounts, links, ghosts
<1>5. TwoLiveNeedOverlap'
  BY DEF Tables, TwoLiveNeedOverlap, Live, Outstanding, accounts, links, ghosts
<1>6. ConfirmedStays'
  BY DEF Tables, ConfirmedStays, accounts, links, ghosts
<1> QED
  BY <1>1, <1>2, <1>3, <1>4, <1>5, <1>6 DEF Tables

LEMMA TaskStep ==
    ASSUME IInv, NEW w \in Workers, NEW k \in Task, Become(w, k),
           UNCHANGED <<accounts, links, ghosts>>,
           sent' \subseteq Tokens, started' \in 0..MaxRequests, outside' \in 0..MaxOutside,
           Relies(k),
           Claimed(k) => (Claimed(task[w]) /\ task[w].token = k.token) \/ ~RowLocked(w, k.token)
    PROVE  IInv'
<1> USE DEF IInv
<1>t. /\ task' \in [Workers -> Task]
      /\ task'[w] = k
      /\ \A v \in Workers: v # w => task'[v] = task[v]
  BY BecomeTyped
<1>1. TypeOK'
  BY <1>t DEF TypeOK, accounts, links, ghosts
<1>2. ASSUME NEW v \in Workers
      PROVE  Relies(task[v])'
  <2>1. Relies(task'[v])
    BY <1>t DEF AllRely
  <2> QED
    BY <2>1 DEF Relies, Claimed, Outstanding, Cause, KindOf, accounts, links, ghosts
<1>3. ClaimsApart'
  <2> SUFFICES ASSUME NEW u \in Workers, NEW v \in Workers, u # v,
                      Claimed(task'[u]), Claimed(task'[v])
               PROVE  task'[u].token # task'[v].token
    BY DEF ClaimsApart, Claimed
  <2>1. CASE u # w /\ v # w
    BY <2>1, <1>t DEF ClaimsApart
  <2>2. CASE u = w
    BY <2>2, <1>t DEF ClaimsApart, RowLocked
  <2>3. CASE v = w
    BY <2>3, <1>t DEF ClaimsApart, RowLocked
  <2> QED
    BY <2>1, <2>2, <2>3
<1>4. Tables'
  BY TablesKept
<1> QED
  BY <1>1, <1>2, <1>3, <1>4 DEF AllRely

LEMMA QuietStep ==
    ASSUME IInv, NEW w \in Workers, NEW k \in Task, Become(w, k),
           UNCHANGED <<accounts, links, sent, started, ghosts>>, outside' = outside,
           Relies(k),
           Claimed(k) => (Claimed(task[w]) /\ task[w].token = k.token) \/ ~RowLocked(w, k.token)
    PROVE  IInv'
<1>1. sent' \subseteq Tokens /\ started' \in 0..MaxRequests /\ outside' \in 0..MaxOutside
  BY DEF IInv, TypeOK
<1> QED
  BY <1>1, TaskStep

LEMMA FinishStep ==
    ASSUME IInv, NEW w \in Workers, Finish(w),
           UNCHANGED <<accounts, links, sent, started, ghosts>>, outside' = outside
    PROVE  IInv'
<1>1. Relies(Idle) /\ ~Claimed(Idle)
  BY IdleQuiet, QuietRelies
<1> QED
  BY <1>1, IdleTyped, QuietStep DEF Finish

\* A request begins with a task that asks nothing, or with a link or an
\* account to look at.
LEMMA RequestShape ==
    ASSUME IInv, NEW w \in Workers, Request(w)
    PROVE  \E k \in Task: Start(w, k) /\ Relies(k) /\ ~Claimed(k)
<1>0. users \subseteq 0..MaxIds /\ sent \subseteq Tokens /\ Tokens \subseteq 0..MaxTokens
  BY BoundsAssumption DEF IInv, TypeOK, Ids, Tokens
<1>1. ASSUME NEW a \in Addresses, Register(w, a)
      PROVE  \E k \in Task: Start(w, k) /\ Relies(k) /\ ~Claimed(k)
  <2> DEFINE k == [Idle EXCEPT !.pc = "find", !.op = "register", !.address = a]
  <2>1. k \in Task
    BY <1>0, IdleTyped, Zenon DEF Task, Pcs, Ops
  <2>2. Quiet(k)
    BY DEF Quiet, Idle
  <2>3. Start(w, k)
    BY <1>1 DEF Register
  <2> HIDE DEF k
  <2> QED
    BY <2>1, <2>2, <2>3, QuietRelies
<1>2. ASSUME NEW a \in Addresses, ResendVerification(w, a)
      PROVE  \E k \in Task: Start(w, k) /\ Relies(k) /\ ~Claimed(k)
  <2> DEFINE k == [Idle EXCEPT !.pc = "find", !.op = "resend", !.address = a]
  <2>1. k \in Task
    BY <1>0, IdleTyped, Zenon DEF Task, Pcs, Ops
  <2>2. Quiet(k)
    BY DEF Quiet, Idle
  <2>3. Start(w, k)
    BY <1>2 DEF ResendVerification
  <2> HIDE DEF k
  <2> QED
    BY <2>1, <2>2, <2>3, QuietRelies
<1>3. ASSUME NEW a \in Addresses, RequestPasswordReset(w, a)
      PROVE  \E k \in Task: Start(w, k) /\ Relies(k) /\ ~Claimed(k)
  <2> DEFINE k == [Idle EXCEPT !.pc = "find", !.op = "forgot", !.address = a]
  <2>1. k \in Task
    BY <1>0, IdleTyped, Zenon DEF Task, Pcs, Ops
  <2>2. Quiet(k)
    BY DEF Quiet, Idle
  <2>3. Start(w, k)
    BY <1>3 DEF RequestPasswordReset
  <2> HIDE DEF k
  <2> QED
    BY <2>1, <2>2, <2>3, QuietRelies
<1>4. ASSUME NEW u \in users, ResendUserVerification(w, u)
      PROVE  \E k \in Task: Start(w, k) /\ Relies(k) /\ ~Claimed(k)
  <2> DEFINE k == [Idle EXCEPT !.pc = "look", !.op = "resend", !.user = u]
  <2>1. k \in Task
    BY <1>0, IdleTyped, Zenon DEF Task, Pcs, Ops
  <2>2. Quiet(k)
    BY DEF Quiet, Idle
  <2>3. Start(w, k)
    BY <1>4 DEF ResendUserVerification
  <2> HIDE DEF k
  <2> QED
    BY <2>1, <2>2, <2>3, QuietRelies
<1>5. ASSUME NEW t \in sent, VerifyEmail(w, t)
      PROVE  \E k \in Task: Start(w, k) /\ Relies(k) /\ ~Claimed(k)
  <2> DEFINE k == [Idle EXCEPT !.pc = "claim", !.op = "verify", !.token = t]
  <2>1. k \in Task
    BY <1>0, IdleTyped, Zenon DEF Task, Pcs, Ops
  <2>2. k.pc = "claim" /\ k.op = "verify" /\ k.token \in Tokens
    BY <1>0 DEF Idle
  <2>3. Start(w, k)
    BY <1>5 DEF VerifyEmail
  <2> HIDE DEF k
  <2>4. Relies(k) /\ ~Claimed(k)
    BY <2>2 DEF Relies, Claimed
  <2> QED
    BY <2>1, <2>3, <2>4
<1>6. ASSUME NEW t \in sent, ResetPassword(w, t)
      PROVE  \E k \in Task: Start(w, k) /\ Relies(k) /\ ~Claimed(k)
  <2> DEFINE k == [Idle EXCEPT !.pc = "claim", !.op = "reset", !.token = t]
  <2>1. k \in Task
    BY <1>0, IdleTyped, Zenon DEF Task, Pcs, Ops
  <2>2. k.pc = "claim" /\ k.op = "reset" /\ k.token \in Tokens
    BY <1>0 DEF Idle
  <2>3. Start(w, k)
    BY <1>6 DEF ResetPassword
  <2> HIDE DEF k
  <2>4. Relies(k) /\ ~Claimed(k)
    BY <2>2 DEF Relies, Claimed
  <2> QED
    BY <2>1, <2>3, <2>4
<1>7. ASSUME NEW u \in users, ChangePassword(w, u)
      PROVE  \E k \in Task: Start(w, k) /\ Relies(k) /\ ~Claimed(k)
  <2> DEFINE k == [Idle EXCEPT !.pc = "account", !.op = "change", !.user = u]
  <2>1. k \in Task
    BY <1>0, IdleTyped, Zenon DEF Task, Pcs, Ops
  <2>2. k.pc = "account" /\ k.op = "change" /\ k.token = 0
    BY DEF Idle
  <2>3. Start(w, k)
    BY <1>7 DEF ChangePassword
  <2> HIDE DEF k
  <2>4. Relies(k) /\ ~Claimed(k)
    BY <2>2 DEF Relies, Claimed
  <2> QED
    BY <2>1, <2>3, <2>4
<1>8. ASSUME NEW u \in users, ConfirmUserEmail(w, u)
      PROVE  \E k \in Task: Start(w, k) /\ Relies(k) /\ ~Claimed(k)
  <2> DEFINE k == [Idle EXCEPT !.pc = "account", !.op = "confirm", !.user = u]
  <2>1. k \in Task
    BY <1>0, IdleTyped, Zenon DEF Task, Pcs, Ops
  <2>2. k.pc = "account" /\ k.op = "confirm" /\ k.token = 0
    BY DEF Idle
  <2>3. Start(w, k)
    BY <1>8 DEF ConfirmUserEmail
  <2> HIDE DEF k
  <2>4. Relies(k) /\ ~Claimed(k)
    BY <2>2 DEF Relies, Claimed
  <2> QED
    BY <2>1, <2>3, <2>4
<1>9. ASSUME NEW u \in users, NEW op \in {"activate", "deactivate"}, SwitchUser(w, u, op)
      PROVE  \E k \in Task: Start(w, k) /\ Relies(k) /\ ~Claimed(k)
  <2> DEFINE k == [Idle EXCEPT !.pc = "account", !.op = op, !.user = u]
  <2>1. k \in Task
    BY <1>0, IdleTyped, Zenon DEF Task, Pcs, Ops
  <2>2. k.pc = "account" /\ k.op \notin {"verify", "reset"} /\ k.token = 0
    BY DEF Idle
  <2>3. Start(w, k)
    BY <1>9 DEF SwitchUser
  <2> HIDE DEF k
  <2>4. Relies(k) /\ ~Claimed(k)
    BY <2>2 DEF Relies, Claimed
  <2> QED
    BY <2>1, <2>3, <2>4
<1> QED
  BY <1>1, <1>2, <1>3, <1>4, <1>5, <1>6, <1>7, <1>8, <1>9 DEF Request

LEMMA RequestStep ==
    ASSUME IInv, NEW w \in Workers, Request(w), outside' = outside
    PROVE  IInv'
<1>1. PICK k \in Task: Start(w, k) /\ Relies(k) /\ ~Claimed(k)
  BY RequestShape
<1>2. sent' \subseteq Tokens /\ started' \in 0..MaxRequests /\ outside' \in 0..MaxOutside
  BY <1>1, BoundsAssumption DEF IInv, TypeOK, Start
<1> QED
  BY <1>1, <1>2, TaskStep DEF Start

LEMMA LookUpStep ==
    ASSUME IInv, NEW w \in Workers, LookUp(w), outside' = outside
    PROVE  IInv'
<1>0. TypeOK
  BY DEF IInv
<1>1. CASE task[w].user \in users
  <2> DEFINE k == [task[w] EXCEPT !.pc = "find", !.address = addr[task[w].user]]
  <2>1. addr[task[w].user] \in Addresses \cup {None}
    BY <1>0, <1>1 DEF TypeOK
  <2>2. k \in Task /\ Quiet(k)
    BY <1>0, <2>1, Typed, Zenon DEF Task, Pcs, Quiet
  <2>3. Become(w, k)
    BY <1>1 DEF LookUp
  <2> HIDE DEF k
  <2> QED
    BY <2>2, <2>3, QuietRelies, QuietStep DEF LookUp
<1>2. CASE task[w].user \notin users
  BY <1>2, FinishStep DEF LookUp
<1> QED
  BY <1>1, <1>2

LEMMA FindByEmailStep ==
    ASSUME IInv, NEW w \in Workers, FindByEmail(w), outside' = outside
    PROVE  IInv'
<1>0. TypeOK
  BY DEF IInv
<1>u. UNCHANGED <<accounts, links, sent, started, ghosts>>
  BY Zenon DEF FindByEmail
<1>1. ASSUME NEW p \in {"insert", "notice"}, Become(w, [task[w] EXCEPT !.pc = p])
      PROVE  IInv'
  <2> DEFINE k == [task[w] EXCEPT !.pc = p]
  <2>1. k \in Task /\ Quiet(k)
    BY <1>0, Typed, Zenon DEF Task, Pcs, Quiet
  <2>2. Become(w, k)
    BY <1>1
  <2> HIDE DEF k
  <2> QED
    BY <1>u, <2>1, <2>2, QuietRelies, QuietStep
<1>2. ASSUME NEW u \in Holder(task[w].address),
             Become(w, [task[w] EXCEPT !.pc = "snapshot", !.user = u])
      PROVE  IInv'
  <2> DEFINE k == [task[w] EXCEPT !.pc = "snapshot", !.user = u]
  <2>1. u \in 0..MaxIds
    BY <1>0, BoundsAssumption DEF TypeOK, Holder, Ids
  <2>2. k \in Task /\ Quiet(k)
    BY <1>0, <2>1, Typed, Zenon DEF Task, Pcs, Quiet
  <2>3. Become(w, k)
    BY <1>2
  <2> HIDE DEF k
  <2> QED
    BY <1>u, <2>2, <2>3, QuietRelies, QuietStep
<1>3. CASE Finish(w)
  BY <1>u, <1>3, FinishStep
<1> QED
  BY <1>1, <1>2, <1>3, Zenon DEF FindByEmail

LEMMA InvalidateForUserStep ==
    ASSUME IInv, NEW w \in Workers, InvalidateForUser(w), outside' = outside
    PROVE  IInv'
<1>0. TypeOK
  BY DEF IInv
<1> DEFINE S == Outstanding(task[w].user, KindOf(task[w].op))
           k == [task[w] EXCEPT !.pc = "issue", !.seen = S]
<1>1. S \subseteq Tokens
  BY <1>0, SubsetsTyped
<1> HIDE DEF S
<1>2. k \in Task
  BY <1>0, <1>1, Typed, Zenon DEF Task, Pcs
<1>3. k.pc = "issue" /\ k.op = task[w].op /\ k.user = task[w].user /\ k.seen = S
  BY <1>0, Typed DEF Task
<1>4. Become(w, k)
  BY DEF InvalidateForUser, S
<1> HIDE DEF k
<1>5. Relies(k) /\ ~Claimed(k)
  BY <1>3 DEF Relies, Claimed, S
<1> QED
  BY <1>2, <1>4, <1>5, QuietStep DEF InvalidateForUser

LEMMA HandOffStep ==
    ASSUME IInv, NEW w \in Workers, HandOff(w), outside' = outside
    PROVE  IInv'
<1>0. TypeOK
  BY DEF IInv
<1>1. task[w].token \in Tokens
  BY DEF IInv, AllRely, Relies, HandOff
<1>2. sent' \subseteq Tokens /\ started' \in 0..MaxRequests /\ outside' \in 0..MaxOutside
  BY <1>0, <1>1 DEF HandOff, TypeOK
<1>3. Relies(Idle) /\ ~Claimed(Idle)
  BY IdleQuiet, QuietRelies
<1> QED
  BY <1>2, <1>3, IdleTyped, TaskStep DEF HandOff, Finish

LEMMA ClaimStep ==
    ASSUME IInv, NEW w \in Workers, Claim(w), outside' = outside
    PROVE  IInv'
<1>0. TypeOK
  BY DEF IInv
<1> DEFINE t == task[w].token
           k == [task[w] EXCEPT !.pc = "account", !.user = of[t]]
<1>1. CASE Claimable(t) /\ kind[t] = KindOf(task[w].op)
  <2>1. t \in rows \ used /\ of[t] \in 0..MaxIds
    BY <1>0, <1>1 DEF Claimable, TypeOK
  <2>2. k \in Task
    BY <1>0, <2>1, Typed, Zenon DEF Task, Pcs
  <2>3. k.pc = "account" /\ k.op = task[w].op /\ k.user = of[t] /\ k.token = t
    BY <1>0, Typed DEF Task
  <2>4. task[w].op \in {"verify", "reset"}
    BY DEF IInv, AllRely, Relies, Claim
  <2>5. Become(w, k)
    BY <1>1 DEF Claim
  <2> HIDE DEF k
  <2>6. Relies(k)
    BY <1>1, <2>1, <2>3, <2>4 DEF Relies
  <2>7. ~RowLocked(w, k.token)
    BY <2>3 DEF Claim
  <2> QED
    BY <2>2, <2>5, <2>6, <2>7, QuietStep DEF Claim
<1>2. CASE ~(Claimable(t) /\ kind[t] = KindOf(task[w].op))
  BY <1>2, FinishStep DEF Claim
<1> QED
  BY <1>1, <1>2

\* The entity that is saved carries the confirmation the operation gives, or
\* the one the account had when it was loaded.
LEMMA EntityLoaded ==
    ASSUME NEW op \in Ops, NEW u
    PROVE  /\ Entity(op, u) \subseteq Flags
           /\ op \in {"verify", "confirm"} => "verified" \in Entity(op, u)
           /\ op \notin {"verify", "confirm"} /\ "verified" \in Entity(op, u)
                => u \in verified
BY DEF Entity, Flags, Ops

LEMMA FindByIdStep ==
    ASSUME IInv, NEW w \in Workers, FindById(w), outside' = outside
    PROVE  IInv'
<1>0. TypeOK
  BY DEF IInv
<1>r. Relies(task[w])
  BY DEF IInv, AllRely
<1>1. CASE Become(w, [task[w] EXCEPT !.pc = "save", !.entity = Entity(task[w].op, task[w].user)])
  <2> DEFINE e == Entity(task[w].op, task[w].user)
             k == [task[w] EXCEPT !.pc = "save", !.entity = e]
  <2>1. /\ e \subseteq Flags
        /\ task[w].op \in {"verify", "confirm"} => "verified" \in e
        /\ task[w].op \notin {"verify", "confirm"} /\ "verified" \in e
             => task[w].user \in verified
    BY <1>0, Typed, EntityLoaded
  <2> HIDE DEF e
  <2>2. k \in Task
    BY <1>0, <2>1, Typed, Zenon DEF Task, Pcs
  <2>3. /\ k.pc = "save" /\ k.op = task[w].op /\ k.user = task[w].user
        /\ k.token = task[w].token /\ k.entity = e
    BY <1>0, Typed DEF Task
  <2>4. Become(w, k)
    BY <1>1 DEF e
  <2> HIDE DEF k
  <2>5. task[w].user \in verified => Cause(task[w].user)
    BY DEF IInv, Tables, ConfirmedForCause, Cause
  <2>6. Claimed(k) => Claimed(task[w]) /\ task[w].token = k.token
    BY <2>3 DEF Claimed, FindById
  <2>7. Relies(k)
    BY <1>r, <2>1, <2>3, <2>5, <2>6 DEF Relies, FindById
  <2> QED
    BY <2>2, <2>4, <2>6, <2>7, QuietStep DEF FindById
<1>2. CASE Finish(w)
  BY <1>2, FinishStep DEF FindById
<1> QED
  BY <1>1, <1>2 DEF FindById

LEMMA SaveAccountStep ==
    ASSUME IInv, NEW w \in Workers, SaveAccount(w), outside' = outside
    PROVE  IInv'
<1>0. TypeOK
  BY DEF IInv
<1>r. Relies(task[w])
  BY DEF IInv, AllRely
<1> DEFINE O == Outstanding(task[w].user, KindOf(task[w].op))
<1>1. ASSUME NEW b \in {"both", "one"}, task[w].user \in users,
             Become(w, [task[w] EXCEPT !.pc = "retire", !.writes = b,
                                       !.seen = O \ {task[w].token}])
      PROVE  IInv'
  <2> DEFINE k == [task[w] EXCEPT !.pc = "retire", !.writes = b, !.seen = O \ {task[w].token}]
  <2>1. O \subseteq Tokens
    BY <1>0, SubsetsTyped
  <2> HIDE DEF O
  <2>2. k \in Task
    BY <1>0, <2>1, Typed, Zenon DEF Task, Pcs
  <2>3. /\ k.pc = "retire" /\ k.op = task[w].op /\ k.user = task[w].user
        /\ k.token = task[w].token /\ k.entity = task[w].entity
        /\ k.seen = O \ {task[w].token}
    BY <1>0, Typed DEF Task
  <2>4. Become(w, k)
    BY <1>1 DEF O
  <2> HIDE DEF k
  <2>5. task[w].pc = "save" /\ task[w].op \in {"reset", "change", "confirm"}
    BY DEF SaveAccount
  <2>6. Claimed(k) => Claimed(task[w]) /\ task[w].token = k.token
    BY <2>3, <2>5 DEF Claimed
  <2>7. Outstanding(k.user, KindOf(k.op)) \subseteq k.seen \cup k.met \cup {k.token}
    BY <2>3 DEF O
  <2>8. Relies(k)
    BY <1>1, <1>r, <2>3, <2>5, <2>6, <2>7 DEF Relies
  <2> QED
    BY <2>2, <2>4, <2>6, <2>8, QuietStep DEF SaveAccount
<1>2. CASE Finish(w)
  BY <1>2, FinishStep DEF SaveAccount
<1> QED
  BY <1>1, <1>2 DEF SaveAccount

-----------------------------------------------------------------------------
(* What the other requests may still rely on when the tables change. *)

\* Rows are claimed, retired or removed beside the request.
LEMMA OthersRely ==
    ASSUME IInv, NEW v \in Workers, task'[v] = task[v],
           Claimed(task[v]) => task[v].token \in rows' \ used',
           task[v].pc = "retire" => task[v].user \in users',
           rows' \ used' \subseteq rows \ used,
           of' = of, kind' = kind, vouched \subseteq vouched',
           \A t \in Tokens: grants[t] = 1 => grants'[t] = 1
    PROVE  Relies(task[v])'
<1> DEFINE k == task[v]
<1>1. Relies(k)
  BY DEF IInv, AllRely
<1>2. Outstanding(k.user, KindOf(k.op))' \subseteq Outstanding(k.user, KindOf(k.op))
  BY DEF Outstanding
<1>3. Cause(k.user) => Cause(k.user)'
  BY DEF Cause
<1> QED
  BY <1>1, <1>2, <1>3 DEF Relies, Claimed

\* A link is issued beside the request, which meets it.
LEMMA MeetersRely ==
    ASSUME IInv, NEW v \in Workers, NEW u, NEW kd, nextToken \in Tokens,
           task'[v] = IF task[v].pc = "idle" THEN task[v]
                      ELSE [task[v] EXCEPT !.met = @ \cup {nextToken}],
           Claimed(task[v]) => task[v].token \notin used',
           rows' = rows \cup {nextToken},
           of' = [of EXCEPT ![nextToken] = u], kind' = [kind EXCEPT ![nextToken] = kd],
           used \subseteq used', users \subseteq users',
           vouched' = vouched, grants' = grants
    PROVE  Relies(task[v])'
<1>0. TypeOK /\ Relies(task[v]) /\ Numbered /\ SpentForGood
  BY DEF IInv, AllRely, Tables
<1>1. CASE task[v].pc = "idle"
  BY <1>1 DEF Relies, Claimed
<1>2. CASE task[v].pc # "idle"
  <2> DEFINE k == task[v]
             m == task'[v]
  <2>1. /\ m.pc = k.pc /\ m.op = k.op /\ m.user = k.user /\ m.token = k.token
        /\ m.seen = k.seen /\ m.entity = k.entity
        /\ m.met = k.met \cup {nextToken}
    BY <1>0, <1>2, Typed DEF Task
  <2> HIDE DEF m
  <2>2. \A t \in rows: of'[t] = of[t] /\ kind'[t] = kind[t]
    BY <1>0 DEF TypeOK, Numbered
  <2>3. Outstanding(k.user, KindOf(k.op))'
          \subseteq Outstanding(k.user, KindOf(k.op)) \cup {nextToken}
    <3> SUFFICES ASSUME NEW t \in rows' \ used', t # nextToken,
                        of'[t] = m.user, kind'[t] = KindOf(m.op)
                 PROVE  t \in Outstanding(k.user, KindOf(k.op))
      BY <2>1 DEF Outstanding, m
    <3> QED
      BY <2>1, <2>2 DEF Outstanding
  <2>4. Cause(k.user) => Cause(k.user)'
    <3>1. \A t \in Tokens: grants[t] = 1 => of'[t] = of[t] /\ kind'[t] = kind[t]
      BY <1>0 DEF TypeOK, SpentForGood, Tokens
    <3> QED
      BY <3>1, <2>1 DEF Cause, m
  <2>5. Claimed(m) => m.token \in rows' \ used' /\ m.user = of'[m.token]
                        /\ kind'[m.token] = KindOf(m.op)
    BY <1>0, <2>1, <2>2 DEF Relies, Claimed
  <2> QED
    BY <1>0, <2>1, <2>3, <2>4, <2>5 DEF Relies, Claimed, m
<1> QED
  BY <1>1, <1>2

-----------------------------------------------------------------------------
(* Issuing a link. *)

LEMMA SaveLinkTyped ==
    ASSUME TypeOK, NEW w \in Workers, NEW u \in 0..MaxIds, NEW kd \in Kinds,
           SaveLink(w, u, kd)
    PROVE  /\ rows' \subseteq Tokens /\ kind' \in [Tokens -> Kinds]
           /\ of' \in [Tokens -> 0..MaxIds]
           /\ nextToken' \in 1..(MaxTokens + 1)
           /\ overlaps' \subseteq SUBSET Tokens
           /\ task' \in [Workers -> Task]
<1>1. nextToken \in Tokens /\ nextToken \in 0..MaxTokens /\ nextToken + 1 \in 1..(MaxTokens + 1)
  BY BoundsAssumption DEF SaveLink, Tokens
<1>2. rows' \subseteq Tokens /\ kind' \in [Tokens -> Kinds] /\ of' \in [Tokens -> 0..MaxIds]
      /\ nextToken' \in 1..(MaxTokens + 1)
  BY <1>1 DEF SaveLink, TypeOK
<1>3. overlaps' \subseteq SUBSET Tokens
  BY <1>1, Typed DEF SaveLink, TypeOK
<1>4. [task[w] EXCEPT !.pc = "handoff", !.token = nextToken] \in Task
  BY <1>1, Typed, Zenon DEF Task, Pcs
<1>5. \A v \in Workers: [task[v] EXCEPT !.met = @ \cup {nextToken}] \in Task
  BY <1>1, Typed DEF Task
<1>6. task' \in [Workers -> Task]
  BY <1>4, <1>5, Typed DEF SaveLink, IssuedBy
<1> QED
  BY <1>2, <1>3, <1>6

LEMMA SaveLinkStep ==
    ASSUME IInv, NEW w \in Workers, NEW u \in 0..MaxIds, NEW kd \in Kinds,
           SaveLink(w, u, kd),
           u \in users', users \subseteq users',
           used \subseteq used', used' \subseteq rows, expired' = expired,
           verified' = verified, UNCHANGED <<grants, vouched, lost>>,
           \A v \in Workers \ {w}: Claimed(task[v]) => task[v].token \notin used',
           \A t \in rows \ used': of[t] = u /\ kind[t] = kd => t \in task[w].met
    PROVE  /\ AllRely' /\ ClaimsApart' /\ SpentForGood' /\ ConfirmedForCause'
           /\ TwoLiveNeedOverlap' /\ ConfirmedStays'
           /\ \A t \in rows': t < nextToken' /\ of'[t] \in users'
           /\ used' \subseteq rows' /\ expired' \subseteq rows'
<1>0. /\ TypeOK /\ Numbered /\ SpentForGood /\ ConfirmedForCause /\ TwoLiveNeedOverlap
      /\ ConfirmedStays /\ AllRely /\ ClaimsApart
  BY DEF IInv, Tables
<1>1. /\ nextToken \in Tokens /\ nextToken \in Nat /\ nextToken \notin rows
      /\ nextToken' = nextToken + 1
      /\ rows' = rows \cup {nextToken} /\ rows \subseteq Tokens
      /\ of' = [of EXCEPT ![nextToken] = u] /\ kind' = [kind EXCEPT ![nextToken] = kd]
  BY <1>0 DEF SaveLink, Numbered, TypeOK, Tokens
<1>2. /\ of'[nextToken] = u /\ kind'[nextToken] = kd
      /\ \A t \in rows: t \in Tokens /\ of'[t] = of[t] /\ kind'[t] = kind[t]
  BY <1>0, <1>1 DEF TypeOK
<1>3. \A t \in Tokens: grants[t] # 0 => grants[t] = 1 /\ t < nextToken /\ t \notin rows \ used
                         /\ of'[t] = of[t] /\ kind'[t] = kind[t]
  BY <1>0, <1>1 DEF TypeOK, SpentForGood, Tokens
<1>t. /\ task'[w] = [task[w] EXCEPT !.pc = "handoff", !.token = nextToken]
      /\ \A v \in Workers: v # w =>
           task'[v] = IF task[v].pc = "idle" THEN task[v]
                      ELSE [task[v] EXCEPT !.met = @ \cup {nextToken}]
  BY DEF SaveLink, IssuedBy
<1>4. AllRely'
  <2>1. task'[w].pc = "handoff" /\ task'[w].token \in Tokens
    BY <1>0, <1>1, <1>t, Typed DEF Task
  <2>2. Relies(task[w])'
    BY <2>1 DEF Relies, Claimed
  <2>3. ASSUME NEW v \in Workers, v # w
        PROVE  Relies(task[v])'
    BY <1>1, <1>t, <2>3, MeetersRely
  <2> QED
    BY <2>2, <2>3 DEF AllRely
<1>5. ClaimsApart'
  <2>1. ~Claimed(task'[w])
    BY <1>0, <1>t, Typed DEF Task, Claimed
  <2>2. \A v \in Workers: v # w => /\ Claimed(task'[v]) => Claimed(task[v])
                                   /\ task'[v].token = task[v].token
    <3> SUFFICES ASSUME NEW v \in Workers, v # w
                 PROVE  /\ Claimed(task'[v]) => Claimed(task[v])
                        /\ task'[v].token = task[v].token
      OBVIOUS
    <3>1. /\ task'[v].pc = task[v].pc /\ task'[v].op = task[v].op
          /\ task'[v].token = task[v].token
      <4>1. CASE task[v].pc = "idle"
        BY <1>t, <4>1
      <4>2. CASE task[v].pc # "idle"
        <5>1. task'[v] = [task[v] EXCEPT !.met = @ \cup {nextToken}] /\ task[v] \in Task
          BY <1>0, <1>t, <4>2, Typed
        <5> QED
          BY ONLY <5>1 DEF Task
      <4> QED
        BY <4>1, <4>2
    <3> QED
      BY <3>1 DEF Claimed
  <2> SUFFICES ASSUME NEW v \in Workers, NEW x \in Workers, v # x,
                      Claimed(task'[v]), Claimed(task'[x])
               PROVE  task'[v].token # task'[x].token
    BY DEF ClaimsApart, Claimed
  <2> QED
    BY <1>0, <2>1, <2>2 DEF ClaimsApart
<1>6. SpentForGood'
  <2> SUFFICES ASSUME NEW t \in Tokens, grants[t] # 0
               PROVE  grants[t] = 1 /\ t < nextToken' /\ t \notin rows' \ used'
    BY DEF SpentForGood
  <2> QED
    BY <1>1, <1>3 DEF Tokens
<1>7. ConfirmedForCause'
  BY <1>0, <1>3 DEF ConfirmedForCause
<1>8. TwoLiveNeedOverlap'
  <2> SUFFICES ASSUME NEW x \in users', NEW k \in Kinds,
                      NEW s \in Live(x, k)', NEW t \in Live(x, k)', s # t
               PROVE  {s, t} \in overlaps'
    BY DEF TwoLiveNeedOverlap
  <2>0. overlaps' = overlaps \cup {{nextToken, y}: y \in task[w].met}
    BY DEF SaveLink
  <2>1. \A y \in Live(x, k)': y # nextToken =>
           y \in rows /\ y \notin used' /\ of[y] = x /\ kind[y] = k /\ y \in Live(x, k)
    BY <1>1, <1>2 DEF Live, Outstanding
  <2>2. nextToken \in Live(x, k)' => x = u /\ k = kd
    BY <1>2 DEF Live, Outstanding
  <2>3. CASE s # nextToken /\ t # nextToken
    BY <1>0, <2>0, <2>1, <2>3 DEF Numbered, TwoLiveNeedOverlap
  <2>4. CASE s = nextToken
    <3>1. t \in task[w].met
      BY <2>1, <2>2, <2>4
    <3> QED
      BY <2>0, <2>4, <3>1
  <2>5. CASE t = nextToken
    <3>1. s \in task[w].met
      BY <2>1, <2>2, <2>5
    <3>2. {s, t} = {nextToken, s}
      BY <2>5
    <3> QED
      BY <2>0, <3>1, <3>2
  <2> QED
    BY <2>3, <2>4, <2>5
<1>9. ConfirmedStays'
  <2> SUFFICES ASSUME NEW t \in Tokens, grants[t] = 1, kind'[t] = "confirm"
               PROVE  of'[t] \in (users' \cap verified) \cup lost
    BY DEF ConfirmedStays
  <2>1. of'[t] = of[t] /\ kind[t] = "confirm"
    BY <1>3
  <2> QED
    BY <1>0, <2>1 DEF ConfirmedStays
<1>10. \A t \in rows': t < nextToken' /\ of'[t] \in users'
  <2> SUFFICES ASSUME NEW t \in rows'
               PROVE  t < nextToken' /\ of'[t] \in users'
    OBVIOUS
  <2>1. CASE t = nextToken
    BY <1>1, <1>2, <2>1
  <2>2. CASE t \in rows
    <3>1. t < nextToken /\ of[t] \in users /\ of'[t] = of[t] /\ t \in Tokens
      BY <1>0, <1>2, <2>2 DEF Numbered
    <3>2. nextToken' = nextToken + 1 /\ nextToken \in Nat /\ t \in Nat
      BY <1>1, <3>1 DEF Tokens
    <3>3. t < nextToken'
      BY ONLY <3>1, <3>2
    <3> QED
      BY <3>1, <3>3
  <2> QED
    BY <1>1, <2>1, <2>2
<1>11. used' \subseteq rows' /\ expired' \subseteq rows'
  BY <1>0, <1>1 DEF Numbered
<1> QED
  BY <1>4, <1>5, <1>6, <1>7, <1>8, <1>9, <1>10, <1>11

LEMMA InsertAccountStep ==
    ASSUME IInv, NEW w \in Workers, InsertAccount(w), outside' = outside
    PROVE  IInv'
<1>0. TypeOK /\ Numbered /\ OneAccountPerAddress
  BY DEF IInv, Tables
<1>1. ASSUME Become(w, [task[w] EXCEPT !.pc = "notice"]), UNCHANGED <<accounts, links, ghosts>>
      PROVE  IInv'
  <2> DEFINE k == [task[w] EXCEPT !.pc = "notice"]
  <2>1. k \in Task /\ Quiet(k)
    BY <1>0, Typed, Zenon DEF Task, Pcs, Quiet
  <2>2. Become(w, k)
    BY <1>1
  <2> HIDE DEF k
  <2> QED
    BY <1>1, <2>1, <2>2, QuietRelies, QuietStep DEF InsertAccount
<1>2. CASE Finish(w) /\ UNCHANGED <<accounts, links, ghosts>>
  BY <1>2, FinishStep DEF InsertAccount
<1>3. ASSUME Holder(task[w].address) = {}, nextId \in Ids,
             users' = users \cup {nextId},
             addr' = [addr EXCEPT ![nextId] = task[w].address],
             active' = active \cup {nextId},
             nextId' = nextId + 1,
             SaveLink(w, nextId, "confirm"),
             UNCHANGED <<verified, aged, used, expired, grants, vouched, lost>>
      PROVE  IInv'
  <2>1. nextId \in 0..MaxIds /\ nextId' \in 1..(MaxIds + 1) /\ "confirm" \in Kinds
        /\ nextId \notin users /\ nextId \in Nat
    BY <1>0, <1>3, BoundsAssumption DEF Ids, Kinds, Numbered
  <2>2. \A v \in Workers: Claimed(task[v]) => task[v].token \notin used'
    BY <1>3 DEF IInv, AllRely, Relies
  <2>3. \A t \in rows \ used': of[t] # nextId
    BY <1>0, <2>1 DEF Numbered
  <2>4. used' = used /\ used' \subseteq rows
    BY <1>0, <1>3 DEF Numbered
  <2>5. /\ AllRely' /\ ClaimsApart' /\ SpentForGood' /\ ConfirmedForCause'
        /\ TwoLiveNeedOverlap' /\ ConfirmedStays'
        /\ \A t \in rows': t < nextToken' /\ of'[t] \in users'
        /\ used' \subseteq rows' /\ expired' \subseteq rows'
    BY <1>3, <2>1, <2>2, <2>3, <2>4, SaveLinkStep
  <2>6. Numbered'
    BY <1>0, <1>3, <2>1, <2>5 DEF Numbered, TypeOK, Ids
  <2>7. OneAccountPerAddress'
    <3>1. \A x \in users: addr'[x] = addr[x] /\ addr[x] # task[w].address
      BY <1>0, <1>3, <2>1 DEF TypeOK, Holder
    <3>2. addr'[nextId] = task[w].address
      BY <1>0, <1>3 DEF TypeOK
    <3> QED
      BY <1>0, <1>3, <3>1, <3>2 DEF OneAccountPerAddress
  <2>8. TypeOK'
    <3>1. /\ rows' \subseteq Tokens /\ kind' \in [Tokens -> Kinds]
          /\ of' \in [Tokens -> 0..MaxIds]
          /\ nextToken' \in 1..(MaxTokens + 1)
          /\ overlaps' \subseteq SUBSET Tokens
          /\ task' \in [Workers -> Task]
      BY <1>0, <1>3, <2>1, SaveLinkTyped
    <3>2. users' \subseteq Ids /\ addr' \in [Ids -> Addresses \cup {None}] /\ active' \subseteq Ids
      BY <1>0, <1>3, Typed DEF TypeOK
    <3>3. UNCHANGED <<sent, started, outside>>
      BY DEF InsertAccount
    <3> QED
      BY <1>0, <1>3, <2>1, <3>1, <3>2, <3>3 DEF TypeOK
  <2> QED
    BY <2>5, <2>6, <2>7, <2>8 DEF IInv, Tables
<1> QED
  BY <1>1, <1>2, <1>3 DEF InsertAccount

LEMMA IssueLinkStep ==
    ASSUME IInv, NEW w \in Workers, IssueLink(w), outside' = outside
    PROVE  IInv'
<1>0. TypeOK /\ Numbered /\ OneAccountPerAddress /\ Relies(task[w])
  BY DEF IInv, Tables, AllRely
<1>1. CASE task[w].user \notin users
  BY <1>1, FinishStep DEF IssueLink
<1>2. CASE task[w].user \in users
  <2> DEFINE k == task[w]
  <2>1. /\ k.pc = "issue" /\ \A t \in k.seen: ~RowLocked(w, t)
        /\ used' = used \cup (k.seen \cap rows)
        /\ SaveLink(w, k.user, KindOf(k.op))
        /\ UNCHANGED <<accounts, expired, grants, vouched, lost, sent, started>>
    BY <1>2 DEF IssueLink, Retired
  <2>2. /\ k.user \in 0..MaxIds /\ KindOf(k.op) \in Kinds
        /\ users' = users /\ addr' = addr /\ verified' = verified
        /\ nextId' = nextId /\ active' = active /\ aged' = aged
    BY <1>0, <2>1, Typed DEF KindOf, Kinds, accounts
  <2>3. \A v \in Workers \ {w}: Claimed(task[v]) => task[v].token \notin used'
    <3> SUFFICES ASSUME NEW v \in Workers \ {w}, Claimed(task[v])
                 PROVE  task[v].token \notin used'
      OBVIOUS
    <3>1. task[v].token \notin used
      BY DEF IInv, AllRely, Relies
    <3>2. task[v].token \notin k.seen
      BY <2>1 DEF RowLocked
    <3> QED
      BY <2>1, <3>1, <3>2
  <2>4. \A t \in rows \ used': of[t] = k.user /\ kind[t] = KindOf(k.op) => t \in k.met
    BY <1>0, <2>1 DEF Relies, Outstanding
  <2>5. used \subseteq used' /\ used' \subseteq rows
    BY <1>0, <2>1 DEF Numbered
  <2>6. /\ AllRely' /\ ClaimsApart' /\ SpentForGood' /\ ConfirmedForCause'
        /\ TwoLiveNeedOverlap' /\ ConfirmedStays'
        /\ \A t \in rows': t < nextToken' /\ of'[t] \in users'
        /\ used' \subseteq rows' /\ expired' \subseteq rows'
    <3>1. PICK u \in 0..MaxIds, kd \in Kinds: u = k.user /\ kd = KindOf(k.op)
      BY <2>2
    <3>2. /\ SaveLink(w, u, kd) /\ u \in users' /\ users \subseteq users'
          /\ expired' = expired /\ verified' = verified /\ UNCHANGED <<grants, vouched, lost>>
          /\ \A t \in rows \ used': of[t] = u /\ kind[t] = kd => t \in task[w].met
      BY <1>2, <2>1, <2>2, <2>4, <3>1
    <3> QED
      BY <2>3, <2>5, <3>2, SaveLinkStep
  <2>7. Numbered'
    BY <1>0, <2>2, <2>6 DEF Numbered
  <2>8. OneAccountPerAddress'
    BY <1>0, <2>2 DEF OneAccountPerAddress
  <2>9. TypeOK'
    <3>1. /\ rows' \subseteq Tokens /\ kind' \in [Tokens -> Kinds]
          /\ of' \in [Tokens -> 0..MaxIds]
          /\ nextToken' \in 1..(MaxTokens + 1)
          /\ overlaps' \subseteq SUBSET Tokens
          /\ task' \in [Workers -> Task]
      BY <1>0, <2>1, <2>2, SaveLinkTyped
    <3>2. used' \subseteq Tokens
      BY <1>0, <2>5 DEF TypeOK
    <3> QED
      BY <1>0, <2>1, <2>2, <3>1, <3>2 DEF TypeOK
  <2> QED
    BY <2>6, <2>7, <2>8, <2>9 DEF IInv, Tables
<1> QED
  BY <1>1, <1>2

-----------------------------------------------------------------------------
(* Saving an account: the commit of a claim, of a password or of a flag. *)

\* The request k of worker w commits: its flags are written, the links R are
\* retired and the link it claimed is spent.
Commits(w, k, b, R) ==
    /\ k.pc \in {"save", "retire"} /\ k.user \in users
    /\ R \subseteq rows
    /\ \A t \in R: ~RowLocked(w, t)
    /\ SaveFlags(k, b)
    /\ used' = used \cup R \cup {t \in {k.token}: k.op \in {"verify", "reset"}}
    /\ grants' = [t \in Tokens |-> IF k.op \in {"verify", "reset"} /\ t = k.token
                                   THEN grants[t] + 1 ELSE grants[t]]
    /\ vouched' = vouched \cup {u \in {k.user}: k.op = "confirm"}
    /\ Finish(w)
    /\ UNCHANGED <<users, addr, aged, nextId, rows, kind, of, expired,
                   nextToken, sent, started, overlaps>>

LEMMA CommitsStep ==
    ASSUME IInv, NEW w \in Workers, NEW b \in {"both", "one"}, NEW R,
           Commits(w, task[w], b, R), outside' = outside
    PROVE  IInv'
<1> DEFINE k == task[w]
<1>0. /\ TypeOK /\ Numbered /\ SpentForGood /\ OneAccountPerAddress /\ ConfirmedForCause
      /\ TwoLiveNeedOverlap /\ ConfirmedStays /\ AllRely /\ ClaimsApart /\ Relies(k)
  BY DEF IInv, Tables, AllRely
<1>1. /\ k.pc \in {"save", "retire"} /\ k.user \in users
      /\ R \subseteq rows /\ \A t \in R: ~RowLocked(w, t)
      /\ used' = used \cup R \cup {t \in {k.token}: k.op \in {"verify", "reset"}}
      /\ grants' = [t \in Tokens |-> IF k.op \in {"verify", "reset"} /\ t = k.token
                                     THEN grants[t] + 1 ELSE grants[t]]
      /\ vouched' = vouched \cup {u \in {k.user}: k.op = "confirm"}
      /\ users' = users /\ addr' = addr /\ aged' = aged /\ nextId' = nextId
      /\ rows' = rows /\ kind' = kind /\ of' = of /\ expired' = expired
      /\ nextToken' = nextToken /\ sent' = sent /\ started' = started
      /\ overlaps' = overlaps
  BY DEF Commits
<1>2. Claimed(k) <=> k.op \in {"verify", "reset"}
  BY <1>1 DEF Claimed
<1>3. Claimed(k) => /\ k.token \in rows \ used /\ k.user = of[k.token]
                    /\ kind[k.token] = KindOf(k.op)
                    /\ k.token \in Tokens /\ grants[k.token] = 0 /\ grants'[k.token] = 1
  <2> SUFFICES ASSUME Claimed(k)
               PROVE  /\ k.token \in rows \ used /\ k.user = of[k.token]
                      /\ kind[k.token] = KindOf(k.op)
                      /\ k.token \in Tokens /\ grants[k.token] = 0 /\ grants'[k.token] = 1
    OBVIOUS
  <2>1. /\ k.token \in rows \ used /\ k.user = of[k.token]
        /\ kind[k.token] = KindOf(k.op)
    BY <1>0 DEF Relies
  <2>2. k.token \in Tokens
    BY <1>0, <2>1 DEF TypeOK
  <2>3. grants[k.token] = 0
    BY <1>0, <2>1, <2>2 DEF SpentForGood
  <2>4. grants'[k.token] = grants[k.token] + 1
    BY <1>1, <1>2, <2>2
  <2> QED
    BY <2>1, <2>2, <2>3, <2>4
<1>4. \A t \in Tokens: grants[t] # 0 => grants'[t] = grants[t]
  BY <1>0, <1>1, <1>2, <1>3 DEF TypeOK
<1>5. \A t \in Tokens: grants'[t] # 0 =>
         \/ grants[t] # 0 /\ grants'[t] = grants[t]
         \/ Claimed(k) /\ t = k.token /\ grants'[t] = 1
  BY <1>0, <1>1, <1>2, <1>3 DEF TypeOK
<1>6. used \subseteq used' /\ used' \subseteq rows /\ (Claimed(k) => k.token \in used')
  BY <1>0, <1>1, <1>2, <1>3 DEF Numbered
<1>t. /\ task' \in [Workers -> Task]
      /\ task'[w] = Idle
      /\ \A v \in Workers: v # w => task'[v] = task[v]
  BY <1>0, IdleTyped, BecomeTyped DEF Commits, Finish
<1>f. /\ active' = active \cup {k.user} \/ active' = active \ {k.user} \/ active' = active
      /\ \/ verified' = verified
         \/ verified' = verified \cup {k.user} /\ "verified" \in k.entity
         \/ verified' = verified \ {k.user}
      /\ k.op \in {"verify", "confirm"} => k.user \in verified'
      /\ lost' = lost \cup (verified \ verified')
  BY <1>0, <1>1 DEF Commits, SaveFlags, Put, Relies
<1>7. TypeOK'
  <2>1. k.user \in Ids
    BY <1>0, <1>1 DEF TypeOK
  <2>2. used' \subseteq Tokens
    BY <1>0, <1>6 DEF TypeOK
  <2>3. grants' \in [Tokens -> Nat]
    BY <1>0, <1>1 DEF TypeOK
  <2>4. active' \subseteq Ids /\ verified' \subseteq Ids /\ lost' \subseteq Ids /\ vouched' \subseteq Ids
    BY <1>0, <1>1, <1>f, <2>1 DEF TypeOK
  <2>5. /\ users' = users /\ addr' = addr /\ aged' = aged /\ nextId' = nextId
        /\ rows' = rows /\ kind' = kind /\ of' = of /\ expired' = expired
        /\ nextToken' = nextToken /\ sent' = sent /\ started' = started
        /\ overlaps' = overlaps /\ outside' = outside
    BY <1>1
  <2>6. TypeOK /\ task' \in [Workers -> Task]
    BY <1>0, <1>t
  <2> QED
    BY ONLY <2>2, <2>3, <2>4, <2>5, <2>6 DEF TypeOK
<1>8. AllRely'
  <2>1. Relies(task[w])'
    BY <1>t DEF Relies, Claimed, Idle
  <2>2. ASSUME NEW v \in Workers, v # w
        PROVE  Relies(task[v])'
    <3>1. task'[v] = task[v]
      BY <1>t, <2>2
    <3>2. Claimed(task[v]) => task[v].token \in rows' \ used'
      <4> SUFFICES ASSUME Claimed(task[v])
                   PROVE  task[v].token \in rows \ used'
        BY <1>1
      <4>1. task[v].token \in rows \ used
        BY <1>0 DEF AllRely, Relies
      <4>2. task[v].token \notin R
        BY <1>1, <2>2 DEF RowLocked
      <4>3. Claimed(k) => task[v].token # k.token
        BY <1>0, <2>2 DEF ClaimsApart
      <4> QED
        BY <1>1, <1>2, <4>1, <4>2, <4>3
    <3>3. task[v].pc = "retire" => task[v].user \in users'
      BY <1>0, <1>1 DEF AllRely, Relies
    <3>4. rows' \ used' \subseteq rows \ used /\ of' = of /\ kind' = kind /\ vouched \subseteq vouched'
      BY <1>1, <1>6
    <3>5. \A t \in Tokens: grants[t] = 1 => grants'[t] = 1
      BY <1>4
    <3> QED
      BY <3>1, <3>2, <3>3, <3>4, <3>5, OthersRely
  <2> QED
    BY <2>1, <2>2 DEF AllRely
<1>9. ClaimsApart'
  <2>1. ~Claimed(task'[w])
    BY <1>t DEF Claimed, Idle
  <2> SUFFICES ASSUME NEW v \in Workers, NEW x \in Workers, v # x,
                      Claimed(task'[v]), Claimed(task'[x])
               PROVE  task'[v].token # task'[x].token
    BY DEF ClaimsApart, Claimed
  <2> QED
    BY <1>0, <1>t, <2>1 DEF ClaimsApart
<1>10. Numbered'
  BY <1>0, <1>1, <1>6 DEF Numbered
<1>11. SpentForGood'
  <2> SUFFICES ASSUME NEW t \in Tokens, grants'[t] # 0
               PROVE  grants'[t] = 1 /\ t < nextToken /\ t \notin rows \ used'
    BY <1>1 DEF SpentForGood
  <2>1. CASE grants[t] # 0 /\ grants'[t] = grants[t]
    BY <1>0, <1>6, <2>1 DEF SpentForGood
  <2>2. CASE Claimed(k) /\ t = k.token /\ grants'[t] = 1
    BY <1>0, <1>3, <1>6, <2>2 DEF Numbered
  <2> QED
    BY <1>5, <2>1, <2>2
<1>12. OneAccountPerAddress'
  BY <1>0, <1>1 DEF OneAccountPerAddress
<1>13. ConfirmedForCause'
  <2> SUFFICES ASSUME NEW u \in verified'
               PROVE  Cause(u)'
    BY DEF ConfirmedForCause, Cause
  <2>1. Cause(u) => Cause(u)'
    BY <1>1, <1>4 DEF Cause
  <2>2. CASE u \in verified
    BY <1>0, <2>1, <2>2 DEF ConfirmedForCause, Cause
  <2>3. CASE u \notin verified
    <3>1. u = k.user /\ "verified" \in k.entity
      BY <1>f, <2>3
    <3>2. CASE k.op \notin {"verify", "confirm"}
      BY <1>0, <1>1, <2>1, <3>1, <3>2 DEF Relies
    <3>3. CASE k.op = "confirm"
      BY <1>1, <3>1, <3>3 DEF Cause
    <3>4. CASE k.op = "verify"
      BY <1>1, <1>2, <1>3, <3>1, <3>4 DEF Cause, KindOf
    <3> QED
      BY <3>2, <3>3, <3>4
  <2> QED
    BY <2>2, <2>3
<1>14. TwoLiveNeedOverlap'
  <2>1. \A u, kd: Live(u, kd)' \subseteq Live(u, kd)
    BY <1>1, <1>6 DEF Live, Outstanding
  <2> QED
    BY <1>0, <1>1, <2>1 DEF TwoLiveNeedOverlap
<1>15. ConfirmedStays'
  <2> SUFFICES ASSUME NEW t \in Tokens, grants'[t] = 1, kind[t] = "confirm"
               PROVE  of[t] \in (users \cap verified') \cup lost'
    BY <1>1 DEF ConfirmedStays
  <2>1. CASE grants[t] # 0 /\ grants'[t] = grants[t]
    BY <1>0, <1>f, <2>1 DEF ConfirmedStays
  <2>2. CASE Claimed(k) /\ t = k.token
    <3>1. k.op = "verify"
      BY <1>2, <1>3, <2>2 DEF KindOf
    <3> QED
      BY <1>1, <1>3, <1>f, <2>2, <3>1
  <2> QED
    BY <1>5, <2>1, <2>2
<1> QED
  BY <1>7, <1>8, <1>9, <1>10, <1>11, <1>12, <1>13, <1>14, <1>15 DEF IInv, Tables

LEMMA SaveUserCommits ==
    ASSUME NEW w \in Workers, SaveUser(w)
    PROVE  \/ \E b \in {"both", "one"}: Commits(w, task[w], b, {})
           \/ Finish(w) /\ UNCHANGED <<accounts, links, sent, started, ghosts>>
<1> DEFINE k == task[w]
<1>0. k.pc = "save" /\ k.op \in {"verify", "activate", "deactivate"}
  BY DEF SaveUser
<1>1. CASE /\ k.user \in users
           /\ \E b \in {"both", "one"}: SaveFlags(k, b)
           /\ used' = used \cup {t \in {k.token}: k.op = "verify"}
           /\ grants' = [t \in Tokens |-> IF k.op = "verify" /\ t = k.token
                                          THEN grants[t] + 1 ELSE grants[t]]
  <2>1. PICK b \in {"both", "one"}: SaveFlags(k, b)
    BY <1>1
  <2>2. used' = used \cup {} \cup {t \in {k.token}: k.op \in {"verify", "reset"}}
    BY <1>0, <1>1
  <2>3. grants' = [t \in Tokens |-> IF k.op \in {"verify", "reset"} /\ t = k.token
                                   THEN grants[t] + 1 ELSE grants[t]]
    BY <1>0, <1>1
  <2>4. vouched' = vouched \cup {u \in {k.user}: k.op = "confirm"}
    BY <1>0 DEF SaveUser
  <2>5. /\ Finish(w)
        /\ UNCHANGED <<users, addr, aged, nextId, rows, kind, of, expired,
                       nextToken, sent, started, overlaps>>
    BY DEF SaveUser
  <2>6. Commits(w, k, b, {})
    BY <1>0, <1>1, <2>1, <2>2, <2>3, <2>4, <2>5 DEF Commits
  <2> QED
    BY <2>6
<1>2. CASE UNCHANGED <<verified, active, used, grants, lost>>
  BY <1>2 DEF SaveUser, accounts, links, ghosts
<1> QED
  BY <1>1, <1>2 DEF SaveUser

LEMMA SaveUserStep ==
    ASSUME IInv, NEW w \in Workers, SaveUser(w), outside' = outside
    PROVE  IInv'
BY SaveUserCommits, CommitsStep, FinishStep

LEMMA CommitAccountCommits ==
    ASSUME IInv, NEW w \in Workers, CommitAccount(w)
    PROVE  \E b \in {"both", "one"}: Commits(w, task[w], b, task[w].seen \cap rows)
<1> DEFINE k == task[w]
<1>1. /\ k.pc = "retire" /\ k.op \in {"reset", "change", "confirm"} /\ k.user \in users
      /\ k.writes \in {"both", "one"}
  BY Typed DEF IInv, AllRely, Relies, CommitAccount
<1>2. Commits(w, k, k.writes, k.seen \cap rows)
  <2>1. used' = used \cup (k.seen \cap rows) \cup {t \in {k.token}: k.op \in {"verify", "reset"}}
    BY <1>1 DEF CommitAccount, Retired
  <2>2. grants' = [t \in Tokens |-> IF k.op \in {"verify", "reset"} /\ t = k.token
                                   THEN grants[t] + 1 ELSE grants[t]]
    BY <1>1 DEF CommitAccount
  <2> QED
    BY <1>1, <2>1, <2>2 DEF Commits, CommitAccount
<1> QED
  BY <1>1, <1>2

LEMMA CommitAccountStep ==
    ASSUME IInv, NEW w \in Workers, CommitAccount(w), outside' = outside
    PROVE  IInv'
BY CommitAccountCommits, CommitsStep

-----------------------------------------------------------------------------
(* Administrators, the sweep and time: requests are left where they are. *)

LEMMA OutsideStep ==
    ASSUME IInv, TypeOK', Numbered', OneAccountPerAddress',
           task' = task, of' = of, kind' = kind, nextToken' = nextToken,
           grants' = grants, overlaps' = overlaps,
           vouched \subseteq vouched', lost \subseteq lost',
           rows' \ used' \subseteq rows \ used,
           rows' \ (used' \cup expired') \subseteq rows \ (used \cup expired),
           \A v \in Workers: Claimed(task[v]) => task[v].token \in rows' \ used',
           \A v \in Workers: task[v].pc = "retire" => task[v].user \in users',
           verified' \subseteq verified \cup vouched',
           users \cap verified \subseteq (users' \cap verified') \cup lost'
    PROVE  IInv'
<1>0. /\ Numbered /\ SpentForGood /\ ConfirmedForCause /\ TwoLiveNeedOverlap
      /\ ConfirmedStays /\ ClaimsApart
  BY DEF IInv, Tables
<1>1. AllRely'
  <2> SUFFICES ASSUME NEW v \in Workers
               PROVE  Relies(task[v])'
    BY DEF AllRely
  <2> QED
    BY OthersRely
<1>2. ClaimsApart'
  BY <1>0 DEF ClaimsApart, Claimed
<1>3. SpentForGood'
  BY <1>0 DEF SpentForGood
<1>4. ConfirmedForCause'
  BY <1>0 DEF ConfirmedForCause
<1>5. TwoLiveNeedOverlap'
  <2>1. \A u, kd: Live(u, kd)' \subseteq Live(u, kd)
    BY DEF Live, Outstanding
  <2>2. \A u, kd: \A t \in Live(u, kd): u \in users
    BY <1>0 DEF Live, Outstanding, Numbered
  <2> QED
    BY <1>0, <2>1, <2>2 DEF TwoLiveNeedOverlap
<1>6. ConfirmedStays'
  BY <1>0 DEF ConfirmedStays
<1> QED
  BY <1>1, <1>2, <1>3, <1>4, <1>5, <1>6 DEF IInv, Tables

LEMMA CreateUserStep ==
    ASSUME IInv, NEW a \in Addresses, CreateUser(a), outside' \in 0..MaxOutside
    PROVE  IInv'
<1>0. TypeOK /\ Numbered /\ OneAccountPerAddress
  BY DEF IInv, Tables
<1>1. /\ nextId \in Ids /\ users' = users \cup {nextId}
      /\ addr' = [addr EXCEPT ![nextId] = a] /\ Holder(a) = {}
      /\ verified' = verified \cup {nextId} /\ vouched' = vouched \cup {nextId}
      /\ nextId' = nextId + 1
      /\ aged' = aged /\ rows' = rows /\ kind' = kind /\ of' = of /\ used' = used
      /\ expired' = expired /\ nextToken' = nextToken /\ sent' = sent
      /\ started' = started /\ task' = task /\ grants' = grants
      /\ overlaps' = overlaps /\ lost' = lost
  BY DEF CreateUser, links
<1>2. active' \subseteq Ids
  BY <1>0, <1>1 DEF CreateUser, TypeOK
<1>3. TypeOK'
  <2>1. nextId + 1 \in 1..(MaxIds + 1)
    BY <1>1, BoundsAssumption DEF Ids
  <2>2. addr' \in [Ids -> Addresses \cup {None}]
    BY <1>0, <1>1 DEF TypeOK
  <2>3. users' \subseteq Ids /\ verified' \subseteq Ids /\ vouched' \subseteq Ids
    BY <1>0, <1>1 DEF TypeOK
  <2> QED
    BY <1>0, <1>1, <1>2, <2>1, <2>2, <2>3 DEF TypeOK
<1>4. nextId \notin users
  BY <1>0, <1>1 DEF Numbered, Ids
<1>5. Numbered'
  <2>1. \A u \in users': u < nextId'
    BY <1>0, <1>1 DEF Numbered, TypeOK, Ids
  <2> QED
    BY <1>0, <1>1, <2>1 DEF Numbered
<1>6. OneAccountPerAddress'
  <2>1. \A u \in users: addr'[u] = addr[u] /\ addr[u] # a
    BY <1>0, <1>1, <1>4 DEF TypeOK, Holder
  <2>2. addr'[nextId] = a
    BY <1>0, <1>1 DEF TypeOK
  <2> QED
    BY <1>0, <1>1, <2>1, <2>2 DEF OneAccountPerAddress
<1>7. \A v \in Workers: Claimed(task[v]) => task[v].token \in rows' \ used'
  BY <1>1 DEF IInv, AllRely, Relies
<1>8. \A v \in Workers: task[v].pc = "retire" => task[v].user \in users'
  BY <1>1 DEF IInv, AllRely, Relies
<1> QED
  BY <1>1, <1>3, <1>5, <1>6, <1>7, <1>8, OutsideStep

\* Accounts in D and links in L go.
LEMMA RemovalStep ==
    ASSUME IInv, NEW D, NEW L,
           users' = users \ D, verified' = verified \ D,
           active' = active \ D, aged' = aged \ D,
           addr' \in [Ids -> Addresses \cup {None}],
           \A u \in users \ D: addr'[u] = addr[u],
           nextId' = nextId,
           RemoveLinks(L),
           \A t \in rows: of[t] \in D => t \in L,
           \A v \in Workers: Claimed(task[v]) => task[v].token \notin L,
           \A v \in Workers: task[v].pc = "retire" => task[v].user \notin D,
           lost \subseteq lost', lost' \subseteq Ids, verified \cap D \subseteq lost',
           UNCHANGED <<sent, started, task, grants, vouched, overlaps>>,
           outside' \in 0..MaxOutside
    PROVE  IInv'
<1>0. TypeOK /\ Numbered /\ OneAccountPerAddress /\ AllRely
  BY DEF IInv, Tables
<1>1. /\ rows' = rows \ L /\ used' = used \ L /\ expired' = expired \ L
      /\ kind' = kind /\ of' = of /\ nextToken' = nextToken
  BY DEF RemoveLinks
<1>2. TypeOK'
  BY <1>0, <1>1 DEF TypeOK
<1>3. Numbered'
  BY <1>0, <1>1 DEF Numbered
<1>4. OneAccountPerAddress'
  BY <1>0 DEF OneAccountPerAddress
<1>5. \A v \in Workers: Claimed(task[v]) => task[v].token \in rows' \ used'
  BY <1>0, <1>1 DEF AllRely, Relies
<1>6. \A v \in Workers: task[v].pc = "retire" => task[v].user \in users'
  BY <1>0 DEF AllRely, Relies
<1>7. /\ rows' \ used' \subseteq rows \ used
      /\ rows' \ (used' \cup expired') \subseteq rows \ (used \cup expired)
  BY <1>1
<1>8. /\ verified' \subseteq verified \cup vouched'
      /\ users \cap verified \subseteq (users' \cap verified') \cup lost'
  OBVIOUS
<1> QED
  BY <1>1, <1>2, <1>3, <1>4, <1>5, <1>6, <1>7, <1>8, OutsideStep

LEMMA RemoveUsersTyped ==
    ASSUME TypeOK, NEW D, RemoveUsers(D)
    PROVE  /\ addr' \in [Ids -> Addresses \cup {None}]
           /\ \A u \in users \ D: addr'[u] = addr[u]
BY DEF TypeOK, RemoveUsers

LEMMA DeleteUserStep ==
    ASSUME IInv, NEW u \in Ids, DeleteUser(u), outside' \in 0..MaxOutside
    PROVE  IInv'
<1>0. TypeOK /\ AllRely
  BY DEF IInv
<1> DEFINE L == {t \in rows: of[t] = u}
<1>1. \A v \in Workers: Claimed(task[v]) => task[v].token \notin L
  BY <1>0 DEF DeleteUser, Free, AllRely, Relies
<1>2. \A v \in Workers: task[v].pc = "retire" => task[v].user \notin {u}
  BY DEF DeleteUser, Free
<1>3. lost \subseteq lost' /\ lost' \subseteq Ids /\ verified \cap {u} \subseteq lost'
  BY <1>0 DEF DeleteUser, TypeOK
<1>4. \A t \in rows: of[t] \in {u} => t \in L
  OBVIOUS
<1>5. RemoveUsers({u}) /\ RemoveLinks(L)
      /\ UNCHANGED <<sent, started, task, grants, vouched, overlaps>>
  BY DEF DeleteUser
<1> HIDE DEF L
<1>6. IInv'
  BY <1>0, <1>1, <1>2, <1>3, <1>4, <1>5, RemoveUsersTyped, RemovalStep DEF RemoveUsers
<1> QED
  BY <1>6

LEMMA CleanUnverifiedAccountsStep ==
    ASSUME IInv, CleanUnverifiedAccounts, outside' \in 0..MaxOutside
    PROVE  IInv'
<1>0. TypeOK /\ AllRely
  BY DEF IInv
<1> DEFINE dead == {t \in rows: kind[t] = "confirm" /\ (t \in used \/ t \in expired)}
           L == dead \cup {t \in rows: of[t] \in Sweepable}
<1>1. \A v \in Workers: Claimed(task[v]) => task[v].token \notin L
  BY <1>0 DEF CleanUnverifiedAccounts, Free, AllRely, Relies
<1>2. \A v \in Workers: task[v].pc = "retire" => task[v].user \notin Sweepable
  BY DEF CleanUnverifiedAccounts, Free
<1>3. lost \subseteq lost' /\ lost' \subseteq Ids /\ verified \cap Sweepable \subseteq lost'
  BY <1>0 DEF CleanUnverifiedAccounts, TypeOK, ghosts, Sweepable
<1>4. \A t \in rows: of[t] \in Sweepable => t \in L
  OBVIOUS
<1>5. RemoveUsers(Sweepable) /\ RemoveLinks(L)
      /\ UNCHANGED <<sent, started, task, grants, vouched, overlaps>>
  BY DEF CleanUnverifiedAccounts, ghosts
<1> HIDE DEF L
<1>6. IInv'
  BY <1>0, <1>1, <1>2, <1>3, <1>4, <1>5, RemoveUsersTyped, RemovalStep DEF RemoveUsers
<1> QED
  BY <1>6

LEMMA CleanPasswordResetsStep ==
    ASSUME IInv, CleanPasswordResets, outside' \in 0..MaxOutside
    PROVE  IInv'
<1>0. TypeOK /\ AllRely
  BY DEF IInv
<1> DEFINE L == {t \in rows: kind[t] = "reset" /\ (t \in used \/ t \in expired)}
<1>1. \A v \in Workers: Claimed(task[v]) => task[v].token \notin L
  BY DEF CleanPasswordResets
<1>2. RemoveLinks(L) /\ UNCHANGED <<accounts, sent, started, task, ghosts>>
  BY DEF CleanPasswordResets
<1> HIDE DEF L
<1> PICK D: D = {}
  OBVIOUS
<1>3. /\ users' = users \ D /\ verified' = verified \ D /\ active' = active \ D
      /\ aged' = aged \ D
  BY <1>2 DEF accounts
<1>4. addr' \in [Ids -> Addresses \cup {None}] /\ addr' = addr /\ nextId' = nextId
  BY <1>0, <1>2 DEF TypeOK, accounts
<1>5. lost' = lost /\ lost' \subseteq Ids /\ UNCHANGED <<sent, started, task, grants, vouched, overlaps>>
  BY <1>0, <1>2 DEF TypeOK, ghosts
<1>6. /\ \A t \in rows: of[t] \in D => t \in L
      /\ \A v \in Workers: task[v].pc = "retire" => task[v].user \notin D
      /\ verified \cap D \subseteq lost'
  OBVIOUS
<1> QED
  BY <1>1, <1>2, <1>3, <1>4, <1>5, <1>6, RemovalStep

LEMMA ExpireStep ==
    ASSUME IInv, NEW t \in Tokens, Expire(t), outside' \in 0..MaxOutside
    PROVE  IInv'
<1>0. TypeOK /\ Numbered /\ OneAccountPerAddress /\ AllRely
  BY DEF IInv, Tables
<1>1. /\ t \in rows /\ expired' = expired \cup {t}
      /\ users' = users /\ addr' = addr /\ verified' = verified /\ active' = active
      /\ aged' = aged /\ nextId' = nextId /\ rows' = rows /\ kind' = kind /\ of' = of
      /\ used' = used /\ nextToken' = nextToken /\ sent' = sent /\ started' = started
      /\ task' = task /\ grants' = grants /\ vouched' = vouched
      /\ overlaps' = overlaps /\ lost' = lost
  BY DEF Expire, accounts, ghosts
<1>2. TypeOK'
  BY <1>0, <1>1 DEF TypeOK
<1>3. Numbered' /\ OneAccountPerAddress'
  BY <1>0, <1>1 DEF Numbered, OneAccountPerAddress
<1>4. /\ \A v \in Workers: Claimed(task[v]) => task[v].token \in rows' \ used'
      /\ \A v \in Workers: task[v].pc = "retire" => task[v].user \in users'
  BY <1>0, <1>1 DEF AllRely, Relies
<1>5. /\ rows' \ used' \subseteq rows \ used
      /\ rows' \ (used' \cup expired') \subseteq rows \ (used \cup expired)
  BY <1>1
<1> QED
  BY <1>1, <1>2, <1>3, <1>4, <1>5, OutsideStep

\* The age of an account is only read by the sweep.
LEMMA AgeStep ==
    ASSUME IInv, aged' \subseteq Ids, outside' \in 0..MaxOutside,
           UNCHANGED <<users, addr, verified, active, nextId, links, sent, started,
                       task, ghosts>>
    PROVE  IInv'
<1>0. TypeOK /\ Numbered /\ OneAccountPerAddress /\ AllRely
  BY DEF IInv, Tables
<1>1. /\ rows' = rows /\ kind' = kind /\ of' = of /\ used' = used /\ expired' = expired
      /\ nextToken' = nextToken /\ grants' = grants /\ vouched' = vouched
      /\ overlaps' = overlaps /\ lost' = lost
  BY DEF links, ghosts
<1>2. TypeOK'
  BY <1>0, <1>1 DEF TypeOK
<1>3. Numbered' /\ OneAccountPerAddress'
  BY <1>0, <1>1 DEF Numbered, OneAccountPerAddress
<1>4. /\ \A v \in Workers: Claimed(task[v]) => task[v].token \in rows' \ used'
      /\ \A v \in Workers: task[v].pc = "retire" => task[v].user \in users'
  BY <1>0, <1>1 DEF AllRely, Relies
<1> QED
  BY <1>1, <1>2, <1>3, <1>4, OutsideStep

-----------------------------------------------------------------------------
(* The invariant holds. *)

LEMMA InitIInv == Init => IInv
<1> SUFFICES ASSUME Init PROVE IInv
  OBVIOUS
<1>1. TypeOK
  <2>1. task \in [Workers -> Task]
    BY IdleTyped DEF Init
  <2>2. /\ nextId \in 1..(MaxIds + 1) /\ nextToken \in 1..(MaxTokens + 1)
        /\ started \in 0..MaxRequests /\ outside \in 0..MaxOutside
        /\ of \in [Tokens -> 0..MaxIds] /\ grants \in [Tokens -> Nat]
    BY BoundsAssumption DEF Init
  <2> QED
    BY <2>1, <2>2 DEF Init, TypeOK, Kinds
<1>2. \A w \in Workers: Quiet(task[w])
  BY IdleQuiet DEF Init
<1>3. AllRely /\ ClaimsApart
  BY <1>2, QuietRelies DEF AllRely, ClaimsApart
<1>4. Tables
  BY DEF Init, Tables, Numbered, SpentForGood, OneAccountPerAddress, ConfirmedForCause,
         TwoLiveNeedOverlap, Live, Outstanding, ConfirmedStays
<1> QED
  BY <1>1, <1>3, <1>4 DEF IInv

LEMMA FinishingSteps ==
    ASSUME IInv, NEW w \in Workers, outside' = outside,
           SendNotice(w) \/ BreakDeadlock(w) \/ Crash(w)
    PROVE  IInv'
BY FinishStep DEF SendNotice, BreakDeadlock, Crash

LEMMA NextIInv == IInv /\ [Next]_vars => IInv'
<1> SUFFICES ASSUME IInv, [Next]_vars PROVE IInv'
  OBVIOUS
<1>0. TypeOK
  BY DEF IInv
<1>1. ASSUME NEW w \in Workers, outside' = outside,
             Request(w) \/ Step(w) \/ BreakDeadlock(w) \/ Crash(w)
      PROVE  IInv'
  <2>1. CASE Request(w)
    BY <1>1, <2>1, RequestStep
  <2>2. CASE LookUp(w)
    BY <1>1, <2>2, LookUpStep
  <2>3. CASE FindByEmail(w)
    BY <1>1, <2>3, FindByEmailStep
  <2>4. CASE InsertAccount(w)
    BY <1>1, <2>4, InsertAccountStep
  <2>5. CASE InvalidateForUser(w)
    BY <1>1, <2>5, InvalidateForUserStep
  <2>6. CASE IssueLink(w)
    BY <1>1, <2>6, IssueLinkStep
  <2>7. CASE HandOff(w)
    BY <1>1, <2>7, HandOffStep
  <2>8. CASE SendNotice(w) \/ BreakDeadlock(w) \/ Crash(w)
    BY <1>1, <2>8, FinishingSteps
  <2>9. CASE Claim(w)
    BY <1>1, <2>9, ClaimStep
  <2>10. CASE FindById(w)
    BY <1>1, <2>10, FindByIdStep
  <2>11. CASE SaveUser(w)
    BY <1>1, <2>11, SaveUserStep
  <2>12. CASE SaveAccount(w)
    BY <1>1, <2>12, SaveAccountStep
  <2>13. CASE CommitAccount(w)
    BY <1>1, <2>13, CommitAccountStep
  <2> QED
    BY <1>1, <2>1, <2>2, <2>3, <2>4, <2>5, <2>6, <2>7, <2>8, <2>9, <2>10, <2>11,
       <2>12, <2>13 DEF Step
<1>2. ASSUME Outside, outside < MaxOutside, outside' = outside + 1
      PROVE  IInv'
  <2>0. outside' \in 0..MaxOutside
    BY <1>0, <1>2, BoundsAssumption DEF TypeOK
  <2>1. ASSUME NEW a \in Addresses, CreateUser(a) PROVE IInv'
    BY <2>0, <2>1, CreateUserStep
  <2>2. ASSUME NEW u \in Ids, DeleteUser(u) PROVE IInv'
    BY <2>0, <2>2, DeleteUserStep
  <2>3. ASSUME NEW u \in Ids, Age(u) PROVE IInv'
    <3>1. aged' \subseteq Ids
      BY <1>0, <2>3 DEF Age, TypeOK
    <3> QED
      BY <2>0, <2>3, <3>1, AgeStep DEF Age
  <2>4. CASE CleanUnverifiedAccounts
    BY <2>0, <2>4, CleanUnverifiedAccountsStep
  <2>5. CASE CleanPasswordResets
    BY <2>0, <2>5, CleanPasswordResetsStep
  <2>6. ASSUME NEW t \in Tokens, Expire(t) PROVE IInv'
    BY <2>0, <2>6, ExpireStep
  <2> QED
    BY <1>2, <2>1, <2>2, <2>3, <2>4, <2>5, <2>6 DEF Outside
<1>3. CASE UNCHANGED vars
  <2>1. aged' \subseteq Ids /\ outside' \in 0..MaxOutside
    BY <1>0, <1>3 DEF vars, accounts, TypeOK
  <2> QED
    BY <1>3, <2>1, AgeStep DEF vars, accounts
<1> QED
  BY <1>1, <1>2, <1>3 DEF Next

\* The inductive invariant holds in every reachable state.
THEOREM Inductive == Spec => []IInv
BY InitIInv, NextIInv, PTL DEF Spec

-----------------------------------------------------------------------------
(* What follows from it. *)

\* Every variable keeps its type: among others a request is always at one of
\* the named steps and a link's row names an account number.
THEOREM TypeCorrect == Spec => []TypeOK
BY Inductive, PTL DEF IInv

\* claim and the commit after it: however many requests carry one link, on
\* whatever interleaving, crashes and rollbacks included, it is accepted at
\* most once.
THEOREM LinkAcceptedOnce == Spec => []AcceptedOnce
<1>1. IInv => AcceptedOnce
  BY DEF IInv, TypeOK, Tables, SpentForGood, AcceptedOnce
<1> QED
  BY <1>1, Inductive, PTL

\* While a request holds a claimed link, neither the sweep nor the deletion of
\* an account takes the link's row or the account away from under it.
THEOREM ClaimHolds == Spec => []ClaimKeepsAccount
<1>1. IInv => ClaimKeepsAccount
  BY DEF IInv, AllRely, Relies, Tables, Numbered, ClaimKeepsAccount
<1> QED
  BY <1>1, Inductive, PTL

\* verify_email, confirm_user_email and create_user are the only ways to a
\* confirmed address: a stale save never confirms an account by itself.
THEOREM NoConfirmationFromNothing == Spec => []ConfirmedForCause
<1>1. IInv => ConfirmedForCause
  BY DEF IInv, Tables
<1> QED
  BY <1>1, Inductive, PTL

\* The unique index on the address decides between registrations that all
\* found it free: no two accounts have one address.
THEOREM AddressUnique == Spec => []OneAccountPerAddress
<1>1. IInv => OneAccountPerAddress
  BY DEF IInv, Tables
<1> QED
  BY <1>1, Inductive, PTL

\* invalidate_for_user before every new link: two links of one account and
\* kind are live together only when the requests that issued them overlapped.
THEOREM OldLinksRetired == Spec => []TwoLiveNeedOverlap
<1>1. IInv => TwoLiveNeedOverlap
  BY DEF IInv, Tables
<1> QED
  BY <1>1, Inductive, PTL

\* An account whose confirmation link was accepted is never swept; it is gone
\* or unconfirmed only by an administrator's hand or an overtaken save.
THEOREM ConfirmationStays == Spec => []ConfirmedStays
<1>1. IInv => ConfirmedStays
  BY DEF IInv, Tables
<1> QED
  BY <1>1, Inductive, PTL

\* update_password: once a reset or a change of password commits, the only
\* reset links of the account still live are those issued while it ran.
THEOREM PasswordRetiresLinks == Spec => ChangeRetiresLinks
<1> DEFINE P == \A w \in Workers, u \in Ids:
                   /\ CommitAccount(w)
                   /\ task[w].op \in {"reset", "change"}
                   /\ task[w].user = u
                   => Live(u, "reset")' \subseteq task[w].met
<1>1. IInv => P
  <2> SUFFICES ASSUME IInv, NEW w \in Workers, NEW u \in Ids, CommitAccount(w),
                      task[w].op \in {"reset", "change"}, task[w].user = u,
                      NEW t \in Live(u, "reset")'
               PROVE  t \in task[w].met
    OBVIOUS
  <2>1. Relies(task[w]) /\ TypeOK /\ task[w].pc = "retire"
    BY DEF IInv, AllRely, CommitAccount
  <2>2. t \in rows \ used' /\ of[t] = task[w].user /\ kind[t] = "reset"
    BY DEF CommitAccount, Live, Outstanding
  <2>3. t \notin used /\ t \notin task[w].seen
    BY <2>2 DEF CommitAccount, Retired
  <2>4. t \in Outstanding(task[w].user, KindOf(task[w].op))
    BY <2>2, <2>3 DEF Outstanding, KindOf
  <2>5. t # task[w].token
    <3>1. CASE task[w].op = "reset"
      BY <2>2, <3>1 DEF CommitAccount
    <3>2. CASE task[w].op = "change"
      <4>1. task[w].token = 0
        BY <2>1, <3>2 DEF Relies
      <4> QED
        BY <2>1, <2>2, <4>1 DEF TypeOK, Tokens
    <3> QED
      BY <3>1, <3>2
  <2> QED
    BY <2>1, <2>3, <2>4, <2>5 DEF Relies
<1>2. IInv => [P]_vars
  BY <1>1
<1> HIDE DEF P
<1>3. [][P]_vars => ChangeRetiresLinks
  BY DEF P, ChangeRetiresLinks
<1> QED
  BY <1>2, <1>3, Inductive, PTL

=============================================================================
