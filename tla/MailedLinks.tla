----------------------------- MODULE MailedLinks -----------------------------
(***************************************************************************)
(* Accounts and the one-time links mailed to them: confirmation links      *)
(* (EmailVerification) and reset links (PasswordReset).  Registration,     *)
(* resending, confirming, resetting and changing a password run as         *)
(* PostgreSQL transactions at READ COMMITTED: a claim is a conditional     *)
(* UPDATE that keeps its row locked until the transaction ends, and the    *)
(* UPDATE that retires the outstanding links works on the rows that were   *)
(* committed when the statement began.                                     *)
(*                                                                         *)
(* An account is its id, a link is its token; both are numbered as they    *)
(* are created.  Sessions are left to RefreshSessions, roles to            *)
(* AdminGuard.                                                             *)
(***************************************************************************)
EXTENDS Naturals, FiniteSets

CONSTANTS
    Workers,      \* requests served at the same time
    Addresses,    \* e-mail addresses
    None,         \* no address
    MaxIds,       \* bound: accounts ever created
    MaxTokens,    \* bound: links ever issued
    MaxRequests,  \* bound: requests ever started
    MaxOutside    \* bound: steps of administrators, the sweep and time

ASSUME NoneAssumption == None \notin Addresses
ASSUME BoundsAssumption ==
    MaxIds \in Nat /\ MaxTokens \in Nat /\ MaxRequests \in Nat /\ MaxOutside \in Nat

Ids == 1..MaxIds
Tokens == 1..MaxTokens
Kinds == {"confirm", "reset"}

VARIABLES
    users,      \* ids that have a row
    addr,       \* address of an id
    verified,   \* ids whose email_verified is set
    active,     \* ids whose is_active is set
    aged,       \* ids created before the sweep's cutoff
    rows,       \* tokens that have a row
    kind,       \* which of the two tables the row of a token is in
    of,         \* user_id of a token's row
    used,       \* tokens whose used_at is set
    expired,    \* tokens whose expires_at has passed
    sent,       \* tokens whose message was handed to the queue
    nextId, nextToken, started, outside,
    task,       \* what each worker is doing
    grants,     \* ghost: how often a token's claim was committed
    vouched,    \* ghost: ids confirmed by an administrator
    overlaps,   \* ghost: pairs of links whose requests ran at the same time
    lost        \* ghost: ids deleted by an administrator, or whose confirmation
                \* was overwritten by a save that had loaded them before it

accounts == <<users, addr, verified, active, aged, nextId>>
links == <<rows, kind, of, used, expired, nextToken>>
ghosts == <<grants, vouched, overlaps, lost>>
vars == <<accounts, links, sent, started, outside, task, ghosts>>

Ops == {"none", "register", "resend", "forgot", "verify", "reset", "change",
        "confirm", "activate", "deactivate"}
Flags == {"active", "verified"}
Pcs == {"idle", "look", "find", "insert", "snapshot", "issue", "handoff",
        "notice", "claim", "account", "save", "retire"}

\* seen is the set of rows an UPDATE found when it began, met the links issued
\* while this request ran (ghost), entity the flags the account is saved with and
\* writes whether the UPDATE names both of them or the changed one only.
Task == [pc: Pcs, op: Ops, address: Addresses \cup {None}, user: 0..MaxIds,
         token: 0..MaxTokens, seen: SUBSET Tokens, met: SUBSET Tokens,
         entity: SUBSET Flags, writes: {"both", "one"}]

Idle == [pc |-> "idle", op |-> "none", address |-> None, user |-> 0,
         token |-> 0, seen |-> {}, met |-> {}, entity |-> {},
         writes |-> "one"]

Become(w, k) == task' = [task EXCEPT ![w] = k]
Finish(w) == Become(w, Idle)

\* The kind of link an operation issues, spends or retires.
KindOf(op) == IF op \in {"register", "resend", "verify", "confirm"}
              THEN "confirm" ELSE "reset"

-----------------------------------------------------------------------------
(* Locks held until the transaction ends. *)

Claimed(k) == k.op \in {"verify", "reset"} /\ k.pc \in {"account", "save", "retire"}

RowLocked(w, t) == \E v \in Workers \ {w}: Claimed(task[v]) /\ task[v].token = t
UserLocked(w, u) ==
    \E v \in Workers \ {w}: task[v].pc = "retire" /\ task[v].user = u

-----------------------------------------------------------------------------
(* Queries. *)

Holder(a) == {u \in users: addr[u] = a}

\* Slip: an expired link can still be claimed.
Claimable_Expired(t) == t \in rows /\ t \notin used

\* The WHERE clause of claim.
Claimable(t) == t \in rows /\ t \notin used /\ t \notin expired

\* The WHERE clause of invalidate_for_user.
Outstanding(u, k) == {t \in rows \ used: of[t] = u /\ kind[t] = k}

\* The links of an account that would be accepted now.
Live(u, k) == {t \in Outstanding(u, k): t \notin expired}

-----------------------------------------------------------------------------
Init ==
    /\ users = {} /\ addr = [u \in Ids |-> None]
    /\ verified = {} /\ active = {} /\ aged = {}
    /\ rows = {} /\ kind = [t \in Tokens |-> "confirm"]
    /\ of = [t \in Tokens |-> 0] /\ used = {} /\ expired = {} /\ sent = {}
    /\ nextId = 1 /\ nextToken = 1 /\ started = 0 /\ outside = 0
    /\ task = [w \in Workers |-> Idle]
    /\ grants = [t \in Tokens |-> 0] /\ vouched = {} /\ overlaps = {} /\ lost = {}

\* A request is taken up.
Start(w, k) ==
    /\ task[w].pc = "idle"
    /\ started < MaxRequests
    /\ started' = started + 1
    /\ Become(w, k)
    /\ UNCHANGED <<accounts, links, sent, ghosts>>

Register(w, a) ==
    Start(w, [Idle EXCEPT !.pc = "find", !.op = "register", !.address = a])
ResendVerification(w, a) ==
    Start(w, [Idle EXCEPT !.pc = "find", !.op = "resend", !.address = a])
RequestPasswordReset(w, a) ==
    Start(w, [Idle EXCEPT !.pc = "find", !.op = "forgot", !.address = a])
\* The operator names an account; its address is read in a transaction of its
\* own and the public use case runs on the address.
ResendUserVerification(w, u) ==
    Start(w, [Idle EXCEPT !.pc = "look", !.op = "resend", !.user = u])
VerifyEmail(w, t) ==
    Start(w, [Idle EXCEPT !.pc = "claim", !.op = "verify", !.token = t])
ResetPassword(w, t) ==
    Start(w, [Idle EXCEPT !.pc = "claim", !.op = "reset", !.token = t])
ChangePassword(w, u) ==
    Start(w, [Idle EXCEPT !.pc = "account", !.op = "change", !.user = u])
ConfirmUserEmail(w, u) ==
    Start(w, [Idle EXCEPT !.pc = "account", !.op = "confirm", !.user = u])

\* activate_user and deactivate_user.
SwitchUser(w, u, op) ==
    Start(w, [Idle EXCEPT !.pc = "account", !.op = op, !.user = u])

LookUp(w) ==
    /\ task[w].pc = "look"
    /\ \/ /\ task[w].user \in users
          /\ Become(w, [task[w] EXCEPT !.pc = "find",
                                       !.address = addr[task[w].user]])
       \/ /\ task[w].user \notin users
          /\ Finish(w)
    /\ UNCHANGED <<accounts, links, sent, started, ghosts>>

-----------------------------------------------------------------------------
(* Issuing a link. *)

\* What find_by_email must have found for a link to be issued.
MayIssue(op, u) ==
    IF op = "resend" THEN u \notin verified
                     ELSE u \in active /\ u \in verified

FindByEmail(w) ==
    LET k == task[w] IN
    /\ k.pc = "find"
    /\ \/ /\ k.op = "register"
          /\ Become(w, [k EXCEPT !.pc = IF Holder(k.address) = {}
                                        THEN "insert" ELSE "notice"])
       \/ /\ k.op # "register"
          /\ \E u \in Holder(k.address):
                /\ MayIssue(k.op, u)
                /\ Become(w, [k EXCEPT !.pc = "snapshot", !.user = u])
       \/ /\ k.op # "register"
          /\ \A u \in Holder(k.address): ~MayIssue(k.op, u)
          /\ Finish(w)
    /\ UNCHANGED <<accounts, links, sent, started, ghosts>>

\* Every other request that is running meets the link issued now.
IssuedBy(w, k) ==
    task' = [v \in Workers |->
                IF v = w THEN k
                ELSE IF task[v].pc = "idle" THEN task[v]
                ELSE [task[v] EXCEPT !.met = @ \cup {nextToken}]]

\* The row of a new link of account u, written by worker w.
SaveLink(w, u, k) ==
    /\ nextToken \in Tokens
    /\ rows' = rows \cup {nextToken}
    /\ kind' = [kind EXCEPT ![nextToken] = k]
    /\ of' = [of EXCEPT ![nextToken] = u]
    /\ nextToken' = nextToken + 1
    /\ overlaps' = overlaps \cup {{nextToken, t}: t \in task[w].met}
    /\ IssuedBy(w, [task[w] EXCEPT !.pc = "handoff", !.token = nextToken])

\* Account and link are written in one transaction.  The unique index on the
\* address refuses the second of two registrations that both found it free.
InsertAccount(w) ==
    LET k == task[w] IN
    /\ k.pc = "insert"
    /\ \/ /\ Holder(k.address) # {}
          /\ Become(w, [k EXCEPT !.pc = "notice"])
          /\ UNCHANGED <<accounts, links, ghosts>>
       \/ /\ Holder(k.address) = {}
          /\ nextId \in Ids
          /\ users' = users \cup {nextId}
          /\ addr' = [addr EXCEPT ![nextId] = k.address]
          /\ active' = active \cup {nextId}
          /\ nextId' = nextId + 1
          /\ SaveLink(w, nextId, "confirm")
          /\ UNCHANGED <<verified, aged, used, expired, grants, vouched, lost>>
       \* The default role is missing or cannot be assigned.
       \/ /\ Finish(w)
          /\ UNCHANGED <<accounts, links, ghosts>>
    /\ UNCHANGED <<sent, started>>

\* invalidate_for_user begins: the rows it will work on.
InvalidateForUser(w) ==
    LET k == task[w] IN
    /\ k.pc = "snapshot"
    /\ Become(w, [k EXCEPT !.pc = "issue", !.seen = Outstanding(k.user, KindOf(k.op))])
    /\ UNCHANGED <<accounts, links, sent, started, ghosts>>

\* Slip: the new link is issued and the old ones are left as they are.
Retired_None(k) == {}

\* The rows the statement still finds unused once it has their locks.
Retired(k) == k.seen \cap rows

\* The old links are retired, the new one is saved, the transaction commits.
\* An account deleted meanwhile fails the foreign key and nothing happens.
IssueLink(w) ==
    LET k == task[w] IN
    /\ k.pc = "issue"
    /\ \A t \in k.seen: ~RowLocked(w, t)
    /\ \/ /\ k.user \in users
          /\ used' = used \cup Retired(k)
          /\ SaveLink(w, k.user, KindOf(k.op))
          /\ UNCHANGED <<accounts, expired, grants, vouched, lost>>
       \/ /\ k.user \notin users
          /\ Finish(w)
          /\ UNCHANGED <<accounts, links, ghosts>>
    /\ UNCHANGED <<sent, started>>

\* After the commit the message is handed to the queue, which may refuse it.
HandOff(w) ==
    /\ task[w].pc = "handoff"
    /\ \/ sent' = sent \cup {task[w].token}
       \/ sent' = sent
    /\ Finish(w)
    /\ UNCHANGED <<accounts, links, started, ghosts>>

\* The address is taken: a notice goes out instead of a link.
SendNotice(w) ==
    /\ task[w].pc = "notice"
    /\ Finish(w)
    /\ UNCHANGED <<accounts, links, sent, started, ghosts>>

-----------------------------------------------------------------------------
(* Spending a link, and the other ways an account is confirmed or given a    *)
(* new password.                                                             *)

\* Slip: the claim does not wait for the row's lock.
Claim_NoLock(w) ==
    LET t == task[w].token IN
    /\ task[w].pc = "claim"
    /\ \/ /\ Claimable(t)
          /\ kind[t] = KindOf(task[w].op)
          /\ Become(w, [task[w] EXCEPT !.pc = "account", !.user = of[t]])
       \/ /\ ~(Claimable(t) /\ kind[t] = KindOf(task[w].op))
          /\ Finish(w)
    /\ UNCHANGED <<accounts, links, sent, started, ghosts>>

\* claim: the owner is read, then the row is claimed if it is still unused.
Claim(w) ==
    LET t == task[w].token IN
    /\ task[w].pc = "claim"
    /\ ~RowLocked(w, t)
    /\ \/ /\ Claimable(t)
          /\ kind[t] = KindOf(task[w].op)
          /\ Become(w, [task[w] EXCEPT !.pc = "account", !.user = of[t]])
       \/ /\ ~(Claimable(t) /\ kind[t] = KindOf(task[w].op))
          /\ Finish(w)
    /\ UNCHANGED <<accounts, links, sent, started, ghosts>>

\* The account as it is saved after the operation changed it.
Entity(op, u) ==
    LET loaded == {f \in Flags: u \in IF f = "active" THEN active ELSE verified} IN
    CASE op \in {"verify", "confirm"} -> loaded \cup {"verified"}
      [] op = "activate" -> loaded \cup {"active"}
      [] op = "deactivate" -> loaded \ {"active"}
      [] OTHER -> loaded

\* find_by_id.  A reset stops at a deactivated account and the rollback gives
\* the claim back; a changed password may be refused for the current one.
FindById(w) ==
    LET k == task[w]
        u == k.user
        opens == u \in users /\ (k.op = "reset" => u \in active)
    IN
    /\ k.pc = "account"
    /\ \/ /\ opens
          /\ Become(w, [k EXCEPT !.pc = "save", !.entity = Entity(k.op, u)])
       \/ /\ ~opens \/ k.op = "change"
          /\ Finish(w)
    /\ UNCHANGED <<accounts, links, sent, started, ghosts>>

Put(S, u, b) == IF b THEN S \cup {u} ELSE S \ {u}

\* The flags of an account after a save: every field of the entity is assigned
\* to the row.  Where the row was read again (b = "both") the UPDATE names what
\* differs from it, where it was not, only what the operation changed.
SaveFlags(k, b) ==
    /\ active' = IF b = "both" \/ k.op \in {"activate", "deactivate"}
                 THEN Put(active, k.user, "active" \in k.entity) ELSE active
    /\ verified' = IF b = "both" \/ k.op \in {"verify", "confirm"}
                   THEN Put(verified, k.user, "verified" \in k.entity) ELSE verified
    /\ lost' = lost \cup (verified \ verified')

\* verify_email, activate_user and deactivate_user: save and commit.
SaveUser(w) ==
    LET k == task[w] IN
    /\ k.pc = "save" /\ k.op \in {"verify", "activate", "deactivate"}
    /\ ~UserLocked(w, k.user)
    /\ \/ /\ k.user \in users
          /\ \E b \in {"both", "one"}: SaveFlags(k, b)
          /\ used' = used \cup {t \in {k.token}: k.op = "verify"}
          /\ grants' = [t \in Tokens |-> IF k.op = "verify" /\ t = k.token
                                         THEN grants[t] + 1 ELSE grants[t]]
       \/ /\ k.user \notin users
          /\ UNCHANGED <<verified, active, used, grants, lost>>
    /\ Finish(w)
    /\ UNCHANGED <<users, addr, aged, nextId, rows, kind, of, expired,
                   nextToken, sent, started, vouched, overlaps>>

\* Slip: a new password leaves the mailed links as they are.
SaveAccount_KeepsLinks(w) ==
    LET k == task[w] IN
    /\ k.pc = "save" /\ k.op \in {"reset", "change", "confirm"}
    /\ ~UserLocked(w, k.user)
    /\ k.user \in users
    /\ Become(w, [k EXCEPT !.pc = "retire"])
    /\ UNCHANGED <<accounts, links, sent, started, ghosts>>

\* update_password and confirm_user_email: the account is saved, which locks
\* its row, and invalidate_for_user begins.  A password the policy refuses
\* rolls everything back.
SaveAccount(w) ==
    LET k == task[w] IN
    /\ k.pc = "save" /\ k.op \in {"reset", "change", "confirm"}
    /\ ~UserLocked(w, k.user)
    /\ \/ /\ k.user \in users
          /\ \E b \in {"both", "one"}:
                Become(w, [k EXCEPT !.pc = "retire", !.writes = b,
                           !.seen = Outstanding(k.user, KindOf(k.op)) \ {k.token}])
       \/ /\ k.user \notin users \/ k.op # "confirm"
          /\ Finish(w)
    /\ UNCHANGED <<accounts, links, sent, started, ghosts>>

\* invalidate_for_user ends once no row it works on is locked, and the
\* transaction commits.
CommitAccount(w) ==
    LET k == task[w] IN
    /\ k.pc = "retire"
    /\ \A t \in k.seen: ~RowLocked(w, t)
    /\ SaveFlags(k, k.writes)
    /\ used' = used \cup Retired(k) \cup {t \in {k.token}: k.op = "reset"}
    /\ grants' = [t \in Tokens |-> IF k.op = "reset" /\ t = k.token
                                   THEN grants[t] + 1 ELSE grants[t]]
    /\ vouched' = vouched \cup {u \in {k.user}: k.op = "confirm"}
    /\ Finish(w)
    /\ UNCHANGED <<users, addr, aged, nextId, rows, kind, of, expired,
                   nextToken, sent, started, overlaps>>

-----------------------------------------------------------------------------
(* Short transactions of administrators and of the sweep, and time. *)

\* create_user: an administrator's account is confirmed from the start.
CreateUser(a) ==
    /\ Holder(a) = {}
    /\ nextId \in Ids
    /\ users' = users \cup {nextId}
    /\ addr' = [addr EXCEPT ![nextId] = a]
    /\ verified' = verified \cup {nextId}
    /\ vouched' = vouched \cup {nextId}
    /\ \/ active' = active \cup {nextId}
       \/ active' = active
    /\ nextId' = nextId + 1
    /\ UNCHANGED <<aged, links, sent, started, task, grants, overlaps, lost>>

\* Nobody holds a lock on these accounts or on their links.
Free(D) ==
    \A v \in Workers: /\ task[v].pc = "retire" => task[v].user \notin D
                      /\ Claimed(task[v]) => task[v].user \notin D

\* Rows of an account go with it: ON DELETE CASCADE.
RemoveUsers(D) ==
    /\ users' = users \ D
    /\ verified' = verified \ D
    /\ active' = active \ D
    /\ aged' = aged \ D
    /\ addr' = [u \in Ids |-> IF u \in D THEN None ELSE addr[u]]
    /\ nextId' = nextId

RemoveLinks(L) ==
    /\ rows' = rows \ L
    /\ used' = used \ L
    /\ expired' = expired \ L
    /\ UNCHANGED <<kind, of, nextToken>>

DeleteUser(u) ==
    /\ u \in users
    /\ Free({u})
    /\ RemoveUsers({u})
    /\ RemoveLinks({t \in rows: of[t] = u})
    /\ lost' = lost \cup {u}
    /\ UNCHANGED <<sent, started, task, grants, vouched, overlaps>>

\* Slip: the sweep does not ask whether the address was confirmed.
Sweepable_Confirmed == users \cap aged
\* The WHERE clause of delete_unverified_before.
Sweepable == {u \in users \cap aged: u \notin verified}

\* Accounts nobody confirmed go, and confirmation links that are spent or have
\* expired.  A locked row is waited for.
CleanUnverifiedAccounts ==
    LET dead == {t \in rows: kind[t] = "confirm" /\ (t \in used \/ t \in expired)}
    IN
    /\ Free(Sweepable)
    /\ \A v \in Workers: Claimed(task[v]) => task[v].token \notin dead
    /\ RemoveUsers(Sweepable)
    /\ RemoveLinks(dead \cup {t \in rows: of[t] \in Sweepable})
    /\ UNCHANGED <<sent, started, task, ghosts>>

\* flask maintenance: reset links that are spent or have expired go.
CleanPasswordResets ==
    LET dead == {t \in rows: kind[t] = "reset" /\ (t \in used \/ t \in expired)}
    IN
    /\ \A v \in Workers: Claimed(task[v]) => task[v].token \notin dead
    /\ RemoveLinks(dead)
    /\ UNCHANGED <<accounts, sent, started, task, ghosts>>

Expire(t) ==
    /\ t \in rows \ expired
    /\ expired' = expired \cup {t}
    /\ UNCHANGED <<accounts, rows, kind, of, used, nextToken, sent, started,
                   task, ghosts>>

Age(u) ==
    /\ u \in users \ aged
    /\ aged' = aged \cup {u}
    /\ UNCHANGED <<users, addr, verified, active, nextId, links, sent, started,
                   task, ghosts>>

-----------------------------------------------------------------------------
\* Two resets of one account: one has the account's row and waits for the
\* other's link, the other has its link and waits for the account.
Deadlocked(v, w) ==
    /\ task[v].pc = "retire" /\ Claimed(task[w])
    /\ task[w].token \in task[v].seen
    /\ task[w].pc = "save" /\ task[w].user = task[v].user

\* PostgreSQL ends a cycle of waits by failing one of the transactions.
BreakDeadlock(w) ==
    /\ \E v \in Workers \ {w}: Deadlocked(v, w) \/ Deadlocked(w, v)
    /\ Finish(w)
    /\ UNCHANGED <<accounts, links, sent, started, ghosts>>

\* The process dies or the database is lost: an open transaction is rolled
\* back, a message not handed off yet is never sent.
Crash(w) ==
    /\ task[w].pc # "idle"
    /\ Finish(w)
    /\ UNCHANGED <<accounts, links, sent, started, ghosts>>

Step(w) ==
    \/ LookUp(w) \/ FindByEmail(w) \/ InsertAccount(w) \/ InvalidateForUser(w)
    \/ IssueLink(w) \/ HandOff(w) \/ SendNotice(w)
    \/ Claim(w) \/ FindById(w) \/ SaveUser(w) \/ SaveAccount(w)
    \/ CommitAccount(w)

Request(w) ==
    \/ \E a \in Addresses: \/ Register(w, a)
                           \/ ResendVerification(w, a)
                           \/ RequestPasswordReset(w, a)
    \/ \E u \in users: \/ ResendUserVerification(w, u)
                       \/ ChangePassword(w, u)
                       \/ ConfirmUserEmail(w, u)
                       \/ \E op \in {"activate", "deactivate"}: SwitchUser(w, u, op)
    \/ \E t \in sent: VerifyEmail(w, t) \/ ResetPassword(w, t)

Outside ==
    \/ \E a \in Addresses: CreateUser(a)
    \/ \E u \in Ids: DeleteUser(u) \/ Age(u)
    \/ CleanUnverifiedAccounts
    \/ CleanPasswordResets
    \/ \E t \in Tokens: Expire(t)

Next ==
    \/ \E w \in Workers: /\ Request(w) \/ Step(w) \/ BreakDeadlock(w) \/ Crash(w)
                         /\ outside' = outside
    \/ Outside /\ outside < MaxOutside /\ outside' = outside + 1

Spec == Init /\ [][Next]_vars

\* The server runs the requests it has taken up, and the database ends cycles.
Fairness ==
    \A w \in Workers: /\ WF_vars(Step(w) /\ outside' = outside)
                     /\ WF_vars(BreakDeadlock(w) /\ outside' = outside)

FairSpec == Spec /\ Fairness

-----------------------------------------------------------------------------
(* Properties. *)

\* Type invariant.
TypeOK ==
    /\ users \subseteq Ids /\ addr \in [Ids -> Addresses \cup {None}]
    /\ verified \subseteq Ids /\ active \subseteq Ids /\ aged \subseteq Ids
    /\ rows \subseteq Tokens /\ kind \in [Tokens -> Kinds]
    /\ of \in [Tokens -> 0..MaxIds]
    /\ used \subseteq Tokens /\ expired \subseteq Tokens /\ sent \subseteq Tokens
    /\ nextId \in 1..(MaxIds + 1) /\ nextToken \in 1..(MaxTokens + 1)
    /\ started \in 0..MaxRequests /\ outside \in 0..MaxOutside
    /\ task \in [Workers -> Task]
    /\ grants \in [Tokens -> Nat]
    /\ vouched \subseteq Ids /\ lost \subseteq Ids
    /\ overlaps \subseteq SUBSET Tokens

\* A mailed link is accepted at most once, however many requests carry it at
\* the same moment and however many of them are rolled back ("only one of two
\* requests carrying the same link can affect a row").
AcceptedOnce == \A t \in Tokens: grants[t] <= 1

\* While a request holds a claimed link, the link's row is there and so
\* is the account it names: the sweep and the cascade wait for the claim.
ClaimKeepsAccount ==
    \A w \in Workers: Claimed(task[w]) =>
        /\ task[w].token \in rows
        /\ task[w].user = of[task[w].token]
        /\ task[w].user \in users

\* An address counts as confirmed only because an administrator said so or
\* because a confirmation link of this very account was accepted.
ConfirmedForCause ==
    \A u \in verified: \/ u \in vouched
                       \/ \E t \in Tokens: /\ grants[t] = 1 /\ of[t] = u
                                           /\ kind[t] = "confirm"

\* No two accounts have one address, although two registrations can both find
\* it free: the unique index decides.
OneAccountPerAddress ==
    \A u, v \in users: addr[u] = addr[v] => u = v

\* "Issuing a new token retires the ones outstanding": two links of one kind
\* and account are live together only if their requests ran at the same time.
TwoLiveNeedOverlap ==
    \A u \in users, k \in Kinds: \A s, t \in Live(u, k):
        s # t => {s, t} \in overlaps

\* "... and so does any password change": what is still live after a reset or
\* a change was issued while that request ran.
ChangeRetiresLinks ==
    [][\A w \in Workers, u \in Ids:
          /\ CommitAccount(w)
          /\ task[w].op \in {"reset", "change"}
          /\ task[w].user = u
          => Live(u, "reset")' \subseteq task[w].met]_vars

\* An account whose confirmation link was accepted stays, and stays confirmed,
\* whatever the sweep does meanwhile, until an administrator deletes it or a
\* save overwrites the flag with what it had loaded before.
ConfirmedStays ==
    \A t \in Tokens: grants[t] = 1 /\ kind[t] = "confirm" =>
        of[t] \in (users \cap verified) \cup lost

\* Every request ends, deadlocked ones included.
RequestsEnd == \A w \in Workers: task[w].pc # "idle" ~> task[w].pc = "idle"

\* The fate of a link: a claim keeps an expired link alive until its request
\* ends.
Phase(t) ==
    IF grants[t] > 0 THEN "spent"
    ELSE IF t >= nextToken THEN "unissued"
    ELSE IF /\ t \in rows \ used
            /\ t \notin expired \/ \E w \in Workers: Claimed(task[w]) /\ task[w].token = t
    THEN "live" ELSE "dead"

Promise == INSTANCE OneTimeLink WITH phase <- [t \in Tokens |-> Phase(t)]

\* The links do what a one-time link promises: issued once, accepted at most
\* once and only while live, final once spent or dead.
KeepsPromise == Promise!Spec

=============================================================================
