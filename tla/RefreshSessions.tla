--------------------------- MODULE RefreshSessions ---------------------------
(***************************************************************************)
(* Signed-in sessions: the rows of `refresh_sessions`, the chain of rows a *)
(* login grows by rotating its refresh token, and the requests that open,  *)
(* rotate and revoke them, as PostgreSQL runs them at READ COMMITTED.      *)
(*                                                                         *)
(* A worker runs one request at a time and a step of it is one statement.  *)
(* What a transaction wrote is kept in the worker's task until its commit: *)
(* nobody else sees it, and the rows it wrote are locked (`held`, and      *)
(* `locked` for the row of the account).  An UPDATE reads its snapshot     *)
(* when it starts, waits for the locks on the rows it found, and checks    *)
(* its WHERE clause again on those rows only: a row that was inserted in   *)
(* the meantime is not part of it.                                         *)
(*                                                                         *)
(* An account is read as an entity, changed, and saved.  The session of    *)
(* the ORM refers to its objects weakly, so saving reads the row again and *)
(* updates every column in which the entity differs from that reading.     *)
(*                                                                         *)
(* Tokens are numbered in the order they are issued; the number stands for *)
(* the `jti`, and a chain is named by the token of the login it began with.*)
(***************************************************************************)
EXTENDS Naturals, FiniteSets

CONSTANTS
    Workers,        \* threads that serve requests
    Users,          \* accounts
    MaxTokens,      \* bound on the refresh tokens ever issued
    MaxRequests,    \* bound on the requests ever started
    None            \* no account

ASSUME NoneAssumption == None \notin Users
ASSUME BoundsAssumption == MaxTokens \in Nat /\ MaxRequests \in Nat

Tokens == 1..MaxTokens

VARIABLES
    present,    \* tokens that have a committed row
    owner,      \* owner[t]: user_id of the row
    chain,      \* chain[t]: chain_id of the row
    replaced,   \* replaced[t]: replaced_by of the row, 0 for NULL
    revoked,    \* tokens whose row has a revoked_at
    expired,    \* tokens whose expires_at has passed
    active,     \* users with is_active
    nextToken,  \* the number the next token gets
    task,       \* task[w]: what worker w is doing
    started,    \* requests started so far
    ended,      \* chains that a committed revocation closed
    overtaken   \* chains that rotated while an UPDATE revoking them waited

table == <<present, owner, chain, replaced, revoked>>
ghosts == <<ended, overtaken>>
vars == <<table, expired, active, nextToken, task, started, ghosts>>

Ops == {"none", "login", "refresh", "signout", "deactivate", "activate",
        "password", "reset"}
Pcs == {"idle", "lookup", "account", "claim", "get", "save", "retire",
        "snapshot", "revoke", "commit", "record", "open"}

\* chain is 0 for a revocation that goes by the account; link says that a
\* reset link of the account is claimed, wants is the entity's is_active and
\* writes says that the UPDATE names that column.
Task == [pc: Pcs, op: Ops, user: Users \cup {None}, token: 0..MaxTokens,
         chain: 0..MaxTokens, found: SUBSET Tokens, held: SUBSET Tokens,
         locked: Users \cup {None}, fresh: 0..MaxTokens,
         link: BOOLEAN, wants: BOOLEAN, writes: BOOLEAN]

Idle == [pc |-> "idle", op |-> "none", user |-> None, token |-> 0,
         chain |-> 0, found |-> {}, held |-> {}, locked |-> None, fresh |-> 0,
         link |-> FALSE, wants |-> FALSE, writes |-> FALSE]

Become(w, t) == task' = [task EXCEPT ![w] = t]
Goto(w, p) == Become(w, [task[w] EXCEPT !.pc = p])
Finish(w) == Become(w, Idle)

Begin(w, t) ==
    /\ task[w].pc = "idle"
    /\ started < MaxRequests
    /\ started' = started + 1
    /\ Become(w, t)

\* Locks other workers hold until they commit.
RowLocked(w, t) == \E v \in Workers \ {w}: t \in task[v].held
UserLocked(w, u) == \E v \in Workers \ {w}: task[v].locked = u
LinkLocked(w, u) == \E v \in Workers \ {w}: task[v].link /\ task[v].user = u

-----------------------------------------------------------------------------
(* The table. *)

IsUsable(t) == t \notin revoked /\ replaced[t] = 0 /\ t \notin expired

\* Slip: the claim does not ask whether the row was revoked meanwhile.
Claimable_Revoked(t) == t \in present /\ replaced[t] = 0 /\ t \notin expired
\* Slip: the claim does not ask whether the row was spent meanwhile.
Claimable_Spent(t) == t \in present /\ t \notin revoked /\ t \notin expired

\* The WHERE clause of claim_for_rotation.
Claimable(t) == t \in present /\ IsUsable(t)

ChainIsLive(c) ==
    \E t \in present: chain[t] = c /\ t \notin revoked /\ t \notin expired

\* Slip: only the row of the token in hand is revoked by its chain.
Revocable_HeadOnly(k) ==
    {t \in present \ revoked:
        IF k.chain # 0 THEN chain[t] = k.chain /\ replaced[t] = 0
                       ELSE owner[t] = k.user}

\* The WHERE clauses of revoke_chain and revoke_all_for_user.
Revocable(k) ==
    {t \in present \ revoked:
        IF k.chain # 0 THEN chain[t] = k.chain ELSE owner[t] = k.user}

\* INSERT of the row RefreshSession.create makes for token f.
Save(f, u, c) ==
    /\ present' = present \cup {f}
    /\ owner' = [owner EXCEPT ![f] = u]
    /\ chain' = [chain EXCEPT ![f] = c]

-----------------------------------------------------------------------------
Init ==
    /\ present = {}
    /\ owner = [t \in Tokens |-> None]
    /\ chain = [t \in Tokens |-> 0]
    /\ replaced = [t \in Tokens |-> 0]
    /\ revoked = {}
    /\ expired = {}
    /\ active = Users
    /\ nextToken = 1
    /\ task = [w \in Workers |-> Idle]
    /\ started = 0
    /\ ended = {}
    /\ overtaken = {}

-----------------------------------------------------------------------------
(* Login: the account is read, `last_login` is written and committed, and  *)
(* the session is inserted by a transaction of its own.                    *)

StartLogin(w) ==
    \E u \in active:
        /\ Begin(w, [Idle EXCEPT !.pc = "record", !.op = "login",
                                 !.user = u])
        /\ UNCHANGED <<table, expired, active, nextToken, ghosts>>

RecordLogin(w) ==
    /\ task[w].pc = "record"
    /\ ~UserLocked(w, task[w].user)
    /\ Goto(w, "open")
    /\ UNCHANGED <<table, expired, active, nextToken, started, ghosts>>

\* create_session_tokens, for a login and for a password change.
OpenSession(w) ==
    /\ task[w].pc = "open"
    /\ nextToken \in Tokens
    /\ Save(nextToken, task[w].user, nextToken)
    /\ nextToken' = nextToken + 1
    /\ Finish(w)
    /\ UNCHANGED <<replaced, revoked, expired, active, started, ghosts>>

-----------------------------------------------------------------------------
(* Refresh: one transaction that looks the token up, reads the account,    *)
(* claims the row and inserts its successor; a spent token retires its     *)
(* chain instead.                                                          *)

StartRefresh(w) ==
    \E t \in present \ expired:
        /\ Begin(w, [Idle EXCEPT !.pc = "lookup", !.op = "refresh",
                                 !.token = t])
        /\ UNCHANGED <<table, expired, active, nextToken, ghosts>>

Lookup(w) ==
    LET t == task[w].token IN
    /\ task[w].pc = "lookup"
    /\ \/ /\ t \in present /\ IsUsable(t)
          /\ Become(w, [task[w] EXCEPT !.pc = "account", !.user = owner[t],
                                       !.chain = chain[t]])
       \/ /\ t \in present /\ ~IsUsable(t) /\ replaced[t] # 0
          /\ Become(w, [task[w] EXCEPT !.pc = "snapshot", !.user = owner[t],
                                       !.chain = chain[t]])
       \/ /\ t \in present => ~IsUsable(t) /\ replaced[t] = 0
          /\ Finish(w)
    /\ UNCHANGED <<table, expired, active, nextToken, started, ghosts>>

ReadAccount(w) ==
    /\ task[w].pc = "account"
    /\ \/ task[w].user \in active /\ Goto(w, "claim")
       \/ task[w].user \notin active /\ Finish(w)
    /\ UNCHANGED <<table, expired, active, nextToken, started, ghosts>>

\* The conditional UPDATE waits for the row, then tests it as it is now.
ClaimForRotation(w) ==
    LET t == task[w].token IN
    /\ task[w].pc = "claim"
    /\ ~RowLocked(w, t)
    /\ \/ /\ Claimable(t)
          /\ nextToken \in Tokens
          /\ Become(w, [task[w] EXCEPT !.pc = "commit", !.held = {t},
                                       !.fresh = nextToken])
          /\ nextToken' = nextToken + 1
       \/ /\ ~Claimable(t)
          /\ Finish(w)
          /\ UNCHANGED nextToken
    /\ UNCHANGED <<table, expired, active, started, ghosts>>

\* An UPDATE that revokes has found row t and does not hold it yet.
AwaitedBy(v, t) == task[v].pc = "revoke" /\ t \in task[v].found

\* Slip: the rotation also writes the account, while it holds the row.
CommitRotation_Account(w) ==
    LET t == task[w].token
        c == chain[t] IN
    /\ task[w].pc = "commit" /\ task[w].fresh # 0
    /\ ~UserLocked(w, owner[t])
    /\ Save(task[w].fresh, owner[t], c)
    /\ replaced' = [replaced EXCEPT ![t] = task[w].fresh]
    /\ overtaken' = overtaken \cup {d \in {c}: \E v \in Workers: AwaitedBy(v, t)}
    /\ Finish(w)
    /\ UNCHANGED <<revoked, expired, active, nextToken, started, ended>>

\* The chain and the account of a row never change: what was looked up holds.
CommitRotation(w) ==
    LET t == task[w].token
        c == chain[t] IN
    /\ task[w].pc = "commit" /\ task[w].fresh # 0
    /\ Save(task[w].fresh, owner[t], c)
    /\ replaced' = [replaced EXCEPT ![t] = task[w].fresh]
    /\ overtaken' = overtaken \cup {d \in {c}: \E v \in Workers: AwaitedBy(v, t)}
    /\ Finish(w)
    /\ UNCHANGED <<revoked, expired, active, nextToken, started, ended>>

-----------------------------------------------------------------------------
(* Revocation: signing out and a replayed token revoke one chain,          *)
(* deactivation and a new password revoke every row of the account.        *)

\* The chain comes from the row of the refresh token, or from the `sid` of
\* the access token; it is the same chain, and it never changes.
StartSignOut(w) ==
    \E t \in present \ expired:
        /\ Begin(w, [Idle EXCEPT !.pc = "snapshot", !.op = "signout",
                                 !.chain = chain[t]])
        /\ UNCHANGED <<table, expired, active, nextToken, ghosts>>

StartDeactivate(w) ==
    \E u \in Users:
        /\ Begin(w, [Idle EXCEPT !.pc = "get", !.op = "deactivate",
                                 !.user = u])
        /\ UNCHANGED <<table, expired, active, nextToken, ghosts>>

StartActivate(w) ==
    \E u \in Users:
        /\ Begin(w, [Idle EXCEPT !.pc = "get", !.op = "activate",
                                 !.user = u, !.wants = TRUE])
        /\ UNCHANGED <<table, expired, active, nextToken, ghosts>>

\* change_password, with the right current password.  The account was active
\* when the request was let in, and is read again without asking.
StartPassword(w) ==
    \E u \in Users:
        /\ Begin(w, [Idle EXCEPT !.pc = "get", !.op = "password",
                                 !.user = u, !.wants = u \in active])
        /\ UNCHANGED <<table, expired, active, nextToken, ghosts>>

\* reset_password, with a link it has claimed; it opens no session.
StartReset(w) ==
    \E u \in active:
        /\ Begin(w, [Idle EXCEPT !.pc = "get", !.op = "reset", !.user = u,
                                 !.link = TRUE, !.wants = TRUE])
        /\ UNCHANGED <<table, expired, active, nextToken, ghosts>>

SetsPassword(k) == k.op \in {"password", "reset"}

\* save reads the row again; an account in which nothing differs is not
\* updated.
Reread(w) ==
    LET k == task[w]
        differs == k.wants # (k.user \in active) IN
    /\ k.pc = "get"
    /\ \/ /\ SetsPassword(k) \/ differs
          /\ Become(w, [k EXCEPT !.pc = "save", !.writes = differs])
       \/ /\ ~SetsPassword(k) /\ ~differs
          /\ Goto(w, IF k.op = "activate" THEN "commit" ELSE "snapshot")
    /\ UNCHANGED <<table, expired, active, nextToken, started, ghosts>>

\* The UPDATE of the account's row, which stays locked until the commit.
SaveUser(w) ==
    /\ task[w].pc = "save"
    /\ ~UserLocked(w, task[w].user)
    /\ Become(w, [task[w] EXCEPT !.locked = task[w].user,
                     !.pc = IF SetsPassword(task[w]) THEN "retire"
                            ELSE IF task[w].op = "activate" THEN "commit"
                            ELSE "snapshot"])
    /\ UNCHANGED <<table, expired, active, nextToken, started, ghosts>>

\* invalidate_for_user: an UPDATE of the account's unused reset links.
Retire(w) ==
    /\ task[w].pc = "retire"
    /\ ~LinkLocked(w, task[w].user)
    /\ Goto(w, "snapshot")
    /\ UNCHANGED <<table, expired, active, nextToken, started, ghosts>>

\* v holds a reset link and waits for the account; w holds the account and
\* waits for the link.
Deadlocked(v, w) ==
    /\ task[v].pc = "save" /\ task[v].link
    /\ task[w].pc = "retire" /\ task[w].locked = task[v].user

\* PostgreSQL aborts one of two transactions that wait for each other.
DeadlockAbort(w) ==
    /\ \E v \in Workers: Deadlocked(v, w) \/ Deadlocked(w, v)
    /\ Finish(w)
    /\ UNCHANGED <<table, expired, active, nextToken, started, ghosts>>

Snapshot(w) ==
    /\ task[w].pc = "snapshot"
    /\ Become(w, [task[w] EXCEPT !.pc = "revoke",
                                 !.found = Revocable(task[w])])
    /\ UNCHANGED <<table, expired, active, nextToken, started, ghosts>>

\* The rows found are locked, and left out if they no longer match.
Revoke(w) ==
    /\ task[w].pc = "revoke"
    /\ \A t \in task[w].found: ~RowLocked(w, t)
    /\ Become(w, [task[w] EXCEPT !.pc = "commit",
                     !.held = task[w].found \cap (present \ revoked)])
    /\ UNCHANGED <<table, expired, active, nextToken, started, ghosts>>

\* Whose is_active the transaction updated.
Written(k) == IF k.writes THEN {k.locked} \cap Users ELSE {}

CommitRevocation(w) ==
    /\ task[w].pc = "commit" /\ task[w].fresh = 0
    /\ revoked' = revoked \cup task[w].held
    /\ active' = IF task[w].wants THEN active \cup Written(task[w])
                                  ELSE active \ Written(task[w])
    /\ ended' = ended \cup {chain[t] : t \in task[w].held}
    /\ \/ /\ task[w].op = "password"
          /\ Become(w, [Idle EXCEPT !.pc = "open", !.op = "password",
                                    !.user = task[w].user])
       \/ task[w].op # "password" /\ Finish(w)
    /\ UNCHANGED <<present, owner, chain, replaced, expired, nextToken,
                   started, overtaken>>

-----------------------------------------------------------------------------
(* The clock, the cleaner and the process. *)

\* Every token lives equally long, so a chain expires from its oldest row.
Expire(t) ==
    /\ t \in present \ expired
    /\ \A s \in present: chain[s] = chain[t] /\ s < t => s \in expired
    /\ expired' = expired \cup {t}
    /\ UNCHANGED <<table, active, nextToken, task, started, ghosts>>

DeleteExpired ==
    /\ present \cap expired # {}
    /\ \A w \in Workers: task[w].held \cap expired = {}
    /\ present' = present \ expired
    /\ UNCHANGED <<owner, chain, replaced, revoked, expired, active,
                   nextToken, task, started, ghosts>>

\* A process that dies takes its uncommitted transaction with it.
Crash(w) ==
    /\ task[w].pc # "idle"
    /\ Finish(w)
    /\ UNCHANGED <<table, expired, active, nextToken, started, ghosts>>

Start(w) ==
    \/ StartLogin(w) \/ StartRefresh(w) \/ StartSignOut(w)
    \/ StartDeactivate(w) \/ StartActivate(w)
    \/ StartPassword(w) \/ StartReset(w)

Step(w) ==
    \/ RecordLogin(w) \/ OpenSession(w)
    \/ Lookup(w) \/ ReadAccount(w) \/ ClaimForRotation(w) \/ CommitRotation(w)
    \/ Reread(w) \/ SaveUser(w) \/ Retire(w) \/ DeadlockAbort(w)
    \/ Snapshot(w) \/ Revoke(w) \/ CommitRevocation(w)

Next ==
    \/ \E w \in Workers: Start(w) \/ Step(w) \/ Crash(w)
    \/ \E t \in Tokens: Expire(t)
    \/ DeleteExpired

Spec == Init /\ [][Next]_vars

\* A thread that serves a request goes on with it, a lock that was released
\* is given to whoever waits for it, and PostgreSQL looks for deadlocks.
\* Nobody has to sign in, the clock and the cleaner are not relied on, and a
\* crash is never due.
Fairness == \A w \in Workers: WF_vars(Step(w))
FairSpec == Spec /\ Fairness

-----------------------------------------------------------------------------
(* Properties. *)

\* The state has the shape the table and the requests give it.
TypeOK ==
    /\ present \subseteq Tokens
    /\ owner \in [Tokens -> Users \cup {None}]
    /\ chain \in [Tokens -> 0..MaxTokens]
    /\ replaced \in [Tokens -> 0..MaxTokens]
    /\ revoked \subseteq Tokens
    /\ expired \subseteq Tokens
    /\ active \subseteq Users
    /\ nextToken \in 1..(MaxTokens + 1)
    /\ task \in [Workers -> Task]
    /\ started \in 0..MaxRequests
    /\ ended \subseteq 0..MaxTokens
    /\ overtaken \subseteq 0..MaxTokens

\* A login never splits: however its token is presented, at most one row of
\* its chain has not been replaced, so two rotations of one token never both
\* succeed (refresh_access_token and claim_for_rotation).
OneHeadPerChain ==
    \A s, t \in present:
        chain[s] = chain[t] /\ replaced[s] = 0 /\ replaced[t] = 0 => s = t

\* An access token is honoured (chain_is_live) only while its login can still
\* be refreshed: revocation, expiry and cleaning never leave a chain whose old
\* rows vouch for it after its newest one is gone.
LiveChainHasHead ==
    \A c \in Tokens:
        ChainIsLive(c) => \E t \in present: chain[t] = c /\ IsUsable(t)

\* A chain that a committed sign-out, replay, deactivation or password change
\* revoked has no row left that is not revoked, now and later, unless it
\* rotated while the revoking UPDATE was waiting for its row.
EndedStaysEnded ==
    \A t \in present: chain[t] \in ended \ overtaken => t \in revoked

\* Revocation without the exception: what docs/architecture.md says of
\* signing out, of blocking an account and of a spent token.
EndedChainsDead == \A t \in present: chain[t] \in ended => t \in revoked

\* What was spent stays spent on the same successor, and what was revoked
\* stays revoked: no order of requests makes an old token good again.
SpentOnce ==
    [][/\ revoked \subseteq revoked'
       /\ \A t \in Tokens: replaced[t] # 0 => replaced'[t] = replaced[t]]_vars

\* A deactivated account becomes active again by an activation and by nothing
\* else: what record_login says of a sign-in, asked of every request that
\* saves an account (save, update_password).
DeactivationSticks ==
    [][\A u \in Users \ active: u \in active' =>
        \E w \in Workers: task[w].op = "activate" /\ task[w].user = u
                          /\ task'[w].pc = "idle"]_vars

\* Requests that wait for each other's rows do not wait for ever: the account
\* is locked before the sessions, a rotation waits for nothing once it has
\* claimed, and a reset against a new password is the one cycle of waits.
RequestsEnd == \A w \in Workers: task[w].pc # "idle" ~> task[w].pc = "idle"

=============================================================================
