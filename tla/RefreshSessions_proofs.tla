------------------------ MODULE RefreshSessions_proofs ------------------------
(***************************************************************************)
(* The safety properties of RefreshSessions, for any number of threads,    *)
(* accounts, tokens and requests.                                          *)
(***************************************************************************)
EXTENDS RefreshSessions, TLAPS

-----------------------------------------------------------------------------
(* The inductive invariant. *)

\* Tokens that are numbered and not on their way into the table: what the
\* columns chain_id and user_id say of them never changes.
Born == {t \in Tokens: t < nextToken /\ \A w \in Workers: task[w].fresh # t}

\* Every token has one number, and every chain is named by a token.
Numbered ==
    /\ present \subseteq Born
    /\ \A w \in Workers:
        /\ task[w].found \subseteq Born /\ task[w].held \subseteq Born
        /\ task[w].fresh < nextToken
        /\ task[w].pc # "commit" => task[w].fresh = 0 /\ task[w].held = {}
    /\ \A v, w \in Workers:
        task[v].fresh = task[w].fresh /\ task[v].fresh # 0 => v = w
    /\ \A t \in Tokens: chain[t] < nextToken
    /\ \A c \in ended: c < nextToken

\* Two transactions never hold a row both, and the row of a rotation that is
\* about to commit is still what the claim found.
Locked ==
    /\ \A v, w \in Workers: v # w => task[v].held \cap task[w].held = {}
    /\ \A w \in Workers: task[w].fresh # 0 =>
        LET t == task[w].token IN
        task[w].held = {t} /\ t \in present \ revoked /\ replaced[t] = 0

\* A chain belongs to one account.
ChainOwner == \A s, t \in present: chain[s] = chain[t] => owner[s] = owner[t]

\* The rows S take in every live row of the chains they are of, except of
\* chains that rotated behind the back of the statement.
Covers(S) ==
    \A s \in S: \A t \in present \ revoked:
        chain[s] = chain[t] => t \in S \/ chain[t] \in overtaken

Revoking(w) == task[w].pc = "commit" /\ task[w].fresh = 0

AllCovered ==
    \A w \in Workers:
        /\ task[w].pc = "revoke" => Covers(task[w].found)
        /\ Revoking(w) => Covers(task[w].held)

IInv ==
    /\ TypeOK
    /\ Numbered
    /\ Locked
    /\ ChainOwner
    /\ OneHeadPerChain
    /\ AllCovered
    /\ EndedStaysEnded

Rest ==
    /\ Numbered
    /\ Locked
    /\ ChainOwner
    /\ OneHeadPerChain
    /\ AllCovered
    /\ EndedStaysEnded

-----------------------------------------------------------------------------
(* The shape of the state. *)

LEMMA IdleTyped == Idle \in Task
BY BoundsAssumption DEF Idle, Task, Pcs, Ops

LEMMA BecomeTyped ==
    ASSUME TypeOK, NEW w \in Workers, NEW k \in Task, Become(w, k)
    PROVE  /\ task' \in [Workers -> Task]
           /\ task'[w] = k
           /\ \A v \in Workers: v # w => task'[v] = task[v]
BY DEF TypeOK, Become

LEMMA BeginTyped ==
    ASSUME TypeOK, NEW w \in Workers, NEW k \in Task, Begin(w, k),
           UNCHANGED <<table, expired, active, nextToken, ghosts>>
    PROVE  TypeOK'
<1>1. task' \in [Workers -> Task]
  BY BecomeTyped DEF Begin
<1>2. started' \in 0..MaxRequests
  BY BoundsAssumption DEF Begin, TypeOK
<1> QED
  BY <1>1, <1>2 DEF TypeOK, table, ghosts

LEMMA StepTyped ==
    ASSUME TypeOK, NEW w \in Workers, NEW k \in Task, Become(w, k),
           UNCHANGED <<table, expired, active, nextToken, started, ghosts>>
    PROVE  TypeOK'
<1>1. task' \in [Workers -> Task]
  BY BecomeTyped
<1> QED
  BY <1>1 DEF TypeOK, table, ghosts

\* A task that has no rows to write and does not look for any.
Quiet(k) == k.fresh = 0 /\ k.held = {} /\ k.found = {} /\ k.pc # "revoke"

\* Every request begins with such a task, and writes nothing else.
LEMMA StartShape ==
    ASSUME TypeOK, NEW w \in Workers, Start(w)
    PROVE  /\ \E k \in Task: Quiet(k) /\ Begin(w, k)
           /\ UNCHANGED <<table, expired, active, nextToken, ghosts>>
<1>0. /\ active \subseteq Users
      /\ present \subseteq Tokens
      /\ \A t \in Tokens: chain[t] \in 0..MaxTokens
      /\ Tokens \subseteq 0..MaxTokens
  BY SMTT(30), BoundsAssumption DEF TypeOK, Tokens
<1>u. UNCHANGED <<table, expired, active, nextToken, ghosts>>
  BY DEF Start, StartLogin, StartRefresh, StartSignOut, StartDeactivate,
         StartActivate, StartPassword, StartReset
<1>1. CASE StartLogin(w)
  <2>1. PICK u \in active:
          Begin(w, [Idle EXCEPT !.pc = "record", !.op = "login", !.user = u])
    BY <1>1 DEF StartLogin
  <2> DEFINE k == [Idle EXCEPT !.pc = "record", !.op = "login", !.user = u]
  <2>2. k \in Task
    BY <1>0, IdleTyped DEF Task, Pcs, Ops
  <2>3. Quiet(k)
    BY DEF Quiet, Idle
  <2> HIDE DEF k
  <2> QED BY SMTT(30), <1>u, <2>1, <2>2, <2>3 DEF k
<1>2. CASE StartRefresh(w)
  <2>1. PICK t \in present \ expired:
          Begin(w, [Idle EXCEPT !.pc = "lookup", !.op = "refresh", !.token = t])
    BY <1>2 DEF StartRefresh
  <2> DEFINE k == [Idle EXCEPT !.pc = "lookup", !.op = "refresh", !.token = t]
  <2>2. k \in Task
    BY <1>0, IdleTyped DEF Task, Pcs, Ops
  <2>3. Quiet(k)
    BY DEF Quiet, Idle
  <2> HIDE DEF k
  <2> QED BY <1>u, <2>1, <2>2, <2>3 DEF k
<1>3. CASE StartSignOut(w)
  <2>1. PICK t \in present \ expired:
          Begin(w, [Idle EXCEPT !.pc = "snapshot", !.op = "signout",
                      !.chain = chain[t]])
    BY <1>3 DEF StartSignOut
  <2> DEFINE k == [Idle EXCEPT !.pc = "snapshot", !.op = "signout",
                      !.chain = chain[t]]
  <2>2. k \in Task
    BY <1>0, IdleTyped DEF Task, Pcs, Ops
  <2>3. Quiet(k)
    BY DEF Quiet, Idle
  <2> HIDE DEF k
  <2> QED BY <1>u, <2>1, <2>2, <2>3 DEF k
<1>4. CASE StartDeactivate(w)
  <2>1. PICK u \in Users:
          Begin(w, [Idle EXCEPT !.pc = "get", !.op = "deactivate",
                      !.user = u])
    BY <1>4 DEF StartDeactivate
  <2> DEFINE k == [Idle EXCEPT !.pc = "get", !.op = "deactivate",
                      !.user = u]
  <2>2. k \in Task
    BY <1>0, IdleTyped DEF Task, Pcs, Ops
  <2>3. Quiet(k)
    BY DEF Quiet, Idle
  <2> HIDE DEF k
  <2> QED BY <1>u, <2>1, <2>2, <2>3 DEF k
<1>5. CASE StartActivate(w)
  <2>1. PICK u \in Users:
          Begin(w, [Idle EXCEPT !.pc = "get", !.op = "activate", !.user = u,
                      !.wants = TRUE])
    BY <1>5 DEF StartActivate
  <2> DEFINE k == [Idle EXCEPT !.pc = "get", !.op = "activate", !.user = u,
                      !.wants = TRUE]
  <2>2. k \in Task
    BY ZenonT(40), <1>0, IdleTyped DEF Task, Pcs, Ops
  <2>3. Quiet(k)
    BY DEF Quiet, Idle
  <2> HIDE DEF k
  <2> QED BY <1>u, <2>1, <2>2, <2>3 DEF k
<1>6. CASE StartPassword(w)
  <2>1. PICK u \in Users:
          Begin(w, [Idle EXCEPT !.pc = "get", !.op = "password", !.user = u,
                      !.wants = u \in active])
    BY ZenonT(40), <1>6 DEF StartPassword
  <2> DEFINE k == [Idle EXCEPT !.pc = "get", !.op = "password", !.user = u,
                      !.wants = u \in active]
  <2>2. k \in Task
    <3>1. ASSUME NEW b \in BOOLEAN
          PROVE  [Idle EXCEPT !.pc = "get", !.op = "password", !.user = u,
                      !.wants = b] \in Task
      BY IdleTyped DEF Task, Pcs, Ops
    <3>2. (u \in active) \in BOOLEAN
      OBVIOUS
    <3> QED BY ONLY <3>1, <3>2 DEF k
  <2>3. Quiet(k)
    BY DEF Quiet, Idle
  <2> HIDE DEF k
  <2> QED BY SMTT(30), <1>u, <2>1, <2>2, <2>3 DEF k
<1>7. CASE StartReset(w)
  <2>1. PICK u \in active:
          Begin(w, [Idle EXCEPT !.pc = "get", !.op = "reset", !.user = u,
                      !.link = TRUE, !.wants = TRUE])
    BY <1>7 DEF StartReset
  <2> DEFINE k == [Idle EXCEPT !.pc = "get", !.op = "reset", !.user = u,
                      !.link = TRUE, !.wants = TRUE]
  <2>2. k \in Task
    BY <1>0, IdleTyped DEF Task, Pcs, Ops
  <2>3. Quiet(k)
    BY DEF Quiet, Idle
  <2> HIDE DEF k
  <2> QED BY <1>u, <2>1, <2>2, <2>3 DEF k
<1> QED
  BY <1>1, <1>2, <1>3, <1>4, <1>5, <1>6, <1>7 DEF Start

\* The steps that deal with the account touch no row of a session: they end
\* the request or move it on with the rows it has.
AccountStep(w) ==
    RecordLogin(w) \/ Reread(w) \/ SaveUser(w) \/ Retire(w) \/ DeadlockAbort(w)

MovesOn(w, k) ==
    /\ k.fresh = task[w].fresh /\ k.held = task[w].held
    /\ k.found = task[w].found /\ k.pc # "revoke"
    /\ task[w].pc # "commit"
    /\ Become(w, k)

LEMMA AccountShape ==
    ASSUME TypeOK, NEW w \in Workers, AccountStep(w)
    PROVE  /\ Finish(w) \/ \E k \in Task: MovesOn(w, k)
           /\ UNCHANGED <<table, expired, active, nextToken, started, ghosts>>
<1>0. task[w] \in Task
  BY DEF TypeOK
<1>u. UNCHANGED <<table, expired, active, nextToken, started, ghosts>>
  BY DEF AccountStep, RecordLogin, Reread, SaveUser, Retire, DeadlockAbort
<1>g. ASSUME NEW p \in Pcs \ {"revoke"}, task[w].pc # "commit", Goto(w, p)
      PROVE  \E k \in Task: MovesOn(w, k)
  <2> DEFINE k == [task[w] EXCEPT !.pc = p]
  <2>1. k \in Task
    BY <1>0 DEF Task
  <2>2. MovesOn(w, k)
    BY <1>0, <1>g DEF MovesOn, Goto, Task
  <2> QED BY <2>1, <2>2
<1>1. CASE RecordLogin(w)
  BY <1>1, <1>g, <1>u DEF RecordLogin, Pcs
<1>2. CASE Reread(w)
  <2> DEFINE d == task[w].wants # (task[w].user \in active)
             k == [task[w] EXCEPT !.pc = "save", !.writes = d]
  <2>1. k \in Task
    BY <1>0 DEF Task, Pcs
  <2>2. Become(w, k) => MovesOn(w, k)
    BY <1>0, <1>2 DEF MovesOn, Reread, Task
  <2>3. Become(w, k) \/ Goto(w, "commit") \/ Goto(w, "snapshot")
    BY <1>2 DEF Reread
  <2>4. task[w].pc # "commit"
    BY <1>2 DEF Reread
  <2> HIDE DEF k
  <2> QED BY <2>1, <2>2, <2>3, <2>4, <1>g, <1>u DEF Pcs
<1>3. CASE SaveUser(w)
  <2> DEFINE k == [task[w] EXCEPT !.locked = task[w].user,
                     !.pc = IF SetsPassword(task[w]) THEN "retire"
                            ELSE IF task[w].op = "activate" THEN "commit"
                            ELSE "snapshot"]
  <2>1. k \in Task
    BY <1>0 DEF Task, Pcs
  <2>2. MovesOn(w, k)
    BY <1>0, <1>3 DEF MovesOn, SaveUser, Task
  <2> HIDE DEF k
  <2> QED BY <2>1, <2>2, <1>u
<1>4. CASE Retire(w)
  BY <1>4, <1>g, <1>u DEF Retire, Pcs
<1>5. CASE DeadlockAbort(w)
  BY <1>5, <1>u DEF DeadlockAbort
<1> QED BY <1>1, <1>2, <1>3, <1>4, <1>5 DEF AccountStep

LEMMA NextTyped == TypeOK /\ Locked /\ [Next]_vars => TypeOK'
<1> SUFFICES ASSUME TypeOK, Locked, [Next]_vars PROVE TypeOK'
  OBVIOUS
<1> USE BoundsAssumption, NoneAssumption
<1>0. /\ \A w \in Workers: task[w] \in Task
      /\ active \subseteq Users
      /\ present \subseteq Tokens
      /\ \A t \in Tokens: owner[t] \in Users \cup {None} /\ chain[t] \in 0..MaxTokens
      /\ nextToken \in 1..(MaxTokens + 1)
      /\ Tokens \subseteq 0..MaxTokens
  BY DEF TypeOK, Tokens
<1>1. ASSUME NEW w \in Workers, Start(w) PROVE TypeOK'
  BY <1>1, StartShape, BeginTyped
<1>2. ASSUME NEW w \in Workers, Step(w) PROVE TypeOK'
  <2> DEFINE Hush == UNCHANGED <<table, expired, active, nextToken, started, ghosts>>
  <2>0. ASSUME NEW k \in Task, Become(w, k), Hush PROVE TypeOK'
    BY <2>0, StepTyped
  <2>g. ASSUME NEW p \in Pcs, Goto(w, p), Hush PROVE TypeOK'
    <3>1. [task[w] EXCEPT !.pc = p] \in Task
      BY <1>0 DEF Task
    <3> QED BY <3>1, <2>g, <2>0 DEF Goto
  <2>f. ASSUME Finish(w), Hush PROVE TypeOK'
    BY <2>f, <2>0, IdleTyped DEF Finish
  <2>1. CASE AccountStep(w)
    BY <2>1, <2>0, <2>f, AccountShape DEF MovesOn
  <2>2. CASE OpenSession(w)
    <3>1. task' \in [Workers -> Task]
      BY <2>2, BecomeTyped, IdleTyped DEF OpenSession, Finish
    <3>2. task[w].user \in Users \cup {None}
      BY <1>0 DEF Task
    <3> QED
      BY <2>2, <3>1, <3>2, <1>0 DEF OpenSession, Save, TypeOK, ghosts, Tokens
  <2>3. CASE Lookup(w)
    <3> DEFINE t == task[w].token
               a == [task[w] EXCEPT !.pc = "account", !.user = owner[t], !.chain = chain[t]]
               r == [task[w] EXCEPT !.pc = "snapshot", !.user = owner[t], !.chain = chain[t]]
    <3>1. t \in present => a \in Task /\ r \in Task
      BY ZenonT(40), <1>0 DEF Task, Pcs
    <3>2. \/ t \in present /\ Become(w, a)
          \/ t \in present /\ Become(w, r)
          \/ Finish(w)
      BY <2>3 DEF Lookup
    <3>3. Hush
      BY <2>3 DEF Lookup
    <3> HIDE DEF a, r
    <3> QED BY <3>1, <3>2, <3>3, <2>0, <2>f
  <2>4. CASE ReadAccount(w)
    BY <2>4, <2>g, <2>f DEF ReadAccount, Pcs
  <2>5. CASE ClaimForRotation(w)
    <3> DEFINE t == task[w].token
               k == [task[w] EXCEPT !.pc = "commit", !.held = {t}, !.fresh = nextToken]
    <3>1. CASE ~Claimable(t)
      BY <2>5, <3>1, <2>f DEF ClaimForRotation, table, ghosts
    <3>2. CASE Claimable(t)
      <4>1. t \in Tokens /\ nextToken \in Tokens
        BY <2>5, <3>2, <1>0 DEF Claimable, ClaimForRotation
      <4>2. k \in Task
        BY ZenonT(40), <4>1, <1>0 DEF Task, Pcs
      <4>3. Become(w, k) /\ nextToken' = nextToken + 1
        BY <2>5, <3>2 DEF ClaimForRotation
      <4> HIDE DEF k
      <4>4. task' \in [Workers -> Task]
        BY <4>2, <4>3, BecomeTyped
      <4>5. nextToken' \in 1..(MaxTokens + 1)
        BY ONLY <4>1, <4>3, BoundsAssumption DEF Tokens
      <4>6. UNCHANGED <<table, expired, active, started, ghosts>>
        BY ONLY <2>5, <3>2 DEF ClaimForRotation
      <4> QED
        BY ONLY <4>4, <4>5, <4>6, TypeOK DEF TypeOK, table, ghosts
    <3> QED BY <3>1, <3>2
  <2>6. CASE CommitRotation(w)
    <3> DEFINE t == task[w].token
               f == task[w].fresh
    <3>1. task' \in [Workers -> Task]
      BY <2>6, BecomeTyped, IdleTyped DEF CommitRotation, Finish
    <3>2. f \in Tokens
      BY <2>6, <1>0 DEF Task, CommitRotation, Tokens
    <3>3. t \in Tokens
      BY <2>6, <1>0 DEF CommitRotation, Locked
    <3>4. /\ present' \subseteq Tokens
          /\ owner' \in [Tokens -> Users \cup {None}]
          /\ chain' \in [Tokens -> 0..MaxTokens]
      BY <2>6, <3>2, <3>3, <1>0 DEF CommitRotation, Save, TypeOK
    <3>5. /\ replaced' \in [Tokens -> 0..MaxTokens]
          /\ overtaken' \subseteq 0..MaxTokens
      BY <2>6, <3>2, <3>3, <1>0 DEF CommitRotation, TypeOK
    <3> QED
      BY <2>6, <3>1, <3>4, <3>5 DEF CommitRotation, TypeOK
  <2>8. CASE Snapshot(w)
    <3> DEFINE k == [task[w] EXCEPT !.pc = "revoke", !.found = Revocable(task[w])]
    <3>1. k \in Task
      BY ZenonT(40), <1>0 DEF Task, Pcs, Revocable
    <3>2. Become(w, k) /\ Hush
      BY <2>8 DEF Snapshot
    <3> HIDE DEF k
    <3> QED BY <3>1, <3>2, <2>0
  <2>9. CASE Revoke(w)
    <3> DEFINE k == [task[w] EXCEPT !.pc = "commit", !.held = task[w].found \cap (present \ revoked)]
    <3>1. k \in Task
      BY ZenonT(40), <1>0 DEF Task, Pcs
    <3>2. Become(w, k) /\ Hush
      BY <2>9 DEF Revoke
    <3> HIDE DEF k
    <3> QED BY <3>1, <3>2, <2>0
  <2>10. CASE CommitRevocation(w)
    <3> DEFINE k == [Idle EXCEPT !.pc = "open", !.op = "password", !.user = task[w].user]
    <3>1. k \in Task
      BY <1>0, IdleTyped DEF Task, Pcs, Ops
    <3>2. Become(w, k) \/ Become(w, Idle)
      BY <2>10 DEF CommitRevocation, Finish
    <3> HIDE DEF k
    <3>3. task' \in [Workers -> Task]
      BY <3>1, <3>2, BecomeTyped, IdleTyped
    <3>4. task[w].held \subseteq Tokens /\ task[w].locked \in Users \cup {None}
      BY <1>0 DEF Task
    <3>5. active' \subseteq Users
      BY <2>10, <3>4, <1>0 DEF CommitRevocation, Written
    <3> QED
      BY <2>10, <3>3, <3>4, <3>5, <1>0 DEF CommitRevocation, Written, TypeOK
  <2> QED
    BY <1>2, <2>1, <2>2, <2>3, <2>4, <2>5, <2>6, <2>8, <2>9, <2>10
    DEF Step, AccountStep
<1>3. ASSUME NEW w \in Workers, Crash(w) PROVE TypeOK'
  BY <1>3, StepTyped, IdleTyped DEF Crash, Finish
<1>4. ASSUME NEW t \in Tokens, Expire(t) PROVE TypeOK'
  BY <1>4 DEF Expire, TypeOK, table, ghosts
<1>5. CASE DeleteExpired
  BY <1>5 DEF DeleteExpired, TypeOK, ghosts
<1>6. CASE UNCHANGED vars
  BY <1>6 DEF TypeOK, vars, table, ghosts
<1> QED
  BY <1>1, <1>2, <1>3, <1>4, <1>5, <1>6 DEF Next

-----------------------------------------------------------------------------
(* Steps that write nothing another request can see. *)

\* What the invariants read of a task.
LEMMA TaskTyped ==
    ASSUME TypeOK, NEW w \in Workers
    PROVE  /\ task[w] \in Task
           /\ task[w].found \in SUBSET Tokens
           /\ task[w].held \in SUBSET Tokens
           /\ task[w].fresh \in 0..MaxTokens
           /\ task[w].token \in 0..MaxTokens
BY DEF TypeOK, Task

\* A worker that takes up a task without rows to write, and does not look for
\* any, disturbs nothing.
LEMMA QuietStep ==
    ASSUME TypeOK, Rest, NEW w \in Workers, NEW k \in Task, Become(w, k),
           UNCHANGED <<table, nextToken, ghosts>>,
           k.fresh = 0, k.held = {}, k.found \subseteq task[w].found,
           k.pc # "revoke"
    PROVE  Rest'
<1>1. task'[w] = k /\ \A v \in Workers: v # w => task'[v] = task[v]
  BY BecomeTyped
<1>2. UNCHANGED <<present, owner, chain, replaced, revoked, nextToken, ended, overtaken>>
  BY DEF table, ghosts
<1>3. nextToken \in Nat /\ nextToken > 0
  BY BoundsAssumption DEF TypeOK
<1>4. Born \subseteq Born'
  BY <1>1, <1>2 DEF Born, Tokens
<1>5. Numbered'
  <2>1. \A v \in Workers: /\ task'[v].found \subseteq Born'
                          /\ task'[v].held \subseteq Born'
                          /\ task'[v].fresh < nextToken'
                          /\ task'[v].pc # "commit" => task'[v].fresh = 0 /\ task'[v].held = {}
    BY <1>1, <1>2, <1>3, <1>4 DEF Rest, Numbered
  <2>2. \A u, v \in Workers:
            task'[u].fresh = task'[v].fresh /\ task'[u].fresh # 0 => u = v
    BY <1>1 DEF Rest, Numbered
  <2> QED
    BY <1>2, <1>4, <2>1, <2>2 DEF Rest, Numbered
<1>6. Locked'
  BY <1>1, <1>2 DEF Rest, Locked
<1>7. ChainOwner' /\ OneHeadPerChain' /\ EndedStaysEnded'
  BY <1>2 DEF Rest, ChainOwner, OneHeadPerChain, EndedStaysEnded
<1>8. AllCovered'
  <2>1. ASSUME NEW v \in Workers
        PROVE  /\ task'[v].pc = "revoke" => Covers(task[v].found)'
               /\ Revoking(v)' => Covers(task[v].held)'
    <3>1. CASE v = w
      BY <1>1, <3>1 DEF Covers
    <3>2. CASE v # w
      BY <1>1, <1>2, <3>2 DEF Rest, AllCovered, Covers, Revoking
    <3> QED BY <3>1, <3>2
  <2> QED BY <2>1 DEF AllCovered
<1> QED BY <1>5, <1>6, <1>7, <1>8 DEF Rest

LEMMA StartRest ==
    ASSUME TypeOK, Rest, NEW w \in Workers, Start(w)
    PROVE  Rest'
<1>1. PICK k \in Task: Quiet(k) /\ Begin(w, k)
  BY StartShape
<1> QED BY <1>1, StartShape, QuietStep DEF Begin, Quiet

LEMMA FinishRest ==
    ASSUME TypeOK, Rest, NEW w \in Workers, Finish(w),
           UNCHANGED <<table, nextToken, ghosts>>
    PROVE  Rest'
BY IdleTyped, QuietStep DEF Finish, Idle

LEMMA GotoRest ==
    ASSUME TypeOK, Rest, NEW w \in Workers, NEW p \in Pcs, Goto(w, p),
           UNCHANGED <<table, nextToken, ghosts>>,
           p # "revoke", task[w].pc # "commit"
    PROVE  Rest'
<1> DEFINE k == [task[w] EXCEPT !.pc = p]
<1>1. k \in Task /\ k.pc = p /\ k.fresh = task[w].fresh
      /\ k.held = task[w].held /\ k.found = task[w].found
  BY TaskTyped DEF Task
<1>2. task[w].fresh = 0 /\ task[w].held = {}
  BY DEF Rest, Numbered
<1>3. Become(w, k)
  BY DEF Goto
<1> HIDE DEF k
<1> QED BY <1>1, <1>2, <1>3, QuietStep

-----------------------------------------------------------------------------
(* Steps that lock or write rows. *)

\* A row that is being written can be told from every row of the table.
LEMMA FreshApart ==
    ASSUME TypeOK, Rest, NEW w \in Workers, task[w].fresh # 0
    PROVE  /\ task[w].fresh \in Tokens \ Born
           /\ task[w].fresh \notin present
BY TaskTyped DEF Rest, Numbered, Born, Tokens

LEMMA OpenRest ==
    ASSUME TypeOK, Rest, NEW w \in Workers, OpenSession(w)
    PROVE  Rest'
<1> DEFINE f == nextToken
<1>1. /\ f \in Tokens /\ f \in Nat /\ f > 0 /\ nextToken' = f + 1
      /\ present' = present \cup {f}
      /\ chain' = [chain EXCEPT ![f] = f]
      /\ owner' = [owner EXCEPT ![f] = task[w].user]
      /\ UNCHANGED <<replaced, revoked, ended, overtaken>>
  BY BoundsAssumption DEF OpenSession, Save, ghosts, TypeOK, Tokens
<1>2. task'[w] = Idle /\ \A v \in Workers: v # w => task'[v] = task[v]
  BY BecomeTyped, IdleTyped DEF OpenSession, Finish
<1>3. Idle.fresh = 0 /\ Idle.held = {} /\ Idle.found = {} /\ Idle.pc = "idle"
  BY DEF Idle
<1>4. \A v \in Workers: task[v].fresh \in 0..MaxTokens /\ task[v].fresh # f
  BY <1>1, TaskTyped DEF Rest, Numbered
<1>5. Born \cup {f} \subseteq Born' /\ f \notin Born
  BY <1>1, <1>2, <1>3, <1>4 DEF Born, Tokens
<1>6. /\ chain \in [Tokens -> Nat] /\ present \subseteq Born /\ Born \subseteq Tokens
      /\ \A t \in Tokens: chain[t] < f
  BY BoundsAssumption DEF TypeOK, Rest, Numbered, Born
<1>7. chain'[f] = f /\ \A t \in Tokens: t # f => chain'[t] = chain[t]
  BY <1>1, <1>6
<1>8. \A t \in Born: chain'[t] = chain[t] /\ chain'[t] # f /\ owner'[t] = owner[t]
  BY <1>1, <1>5, <1>6 DEF TypeOK
<1>9. Numbered'
  <2>1. \A v \in Workers: /\ task'[v].found \subseteq Born'
                          /\ task'[v].held \subseteq Born'
                          /\ task'[v].fresh < nextToken'
                          /\ task'[v].pc # "commit" => task'[v].fresh = 0 /\ task'[v].held = {}
    BY <1>1, <1>2, <1>3, <1>4, <1>5 DEF Rest, Numbered
  <2>2. \A u, v \in Workers:
            task'[u].fresh = task'[v].fresh /\ task'[u].fresh # 0 => u = v
    BY <1>2, <1>3 DEF Rest, Numbered
  <2>3. present' \subseteq Born'
    BY <1>1, <1>5, <1>6
  <2>4. \A t \in Tokens: chain'[t] < nextToken'
    BY <1>1, <1>6, <1>7
  <2>5. \A c \in ended': c < nextToken'
    BY <1>1 DEF Rest, Numbered, TypeOK
  <2> QED
    BY <2>1, <2>2, <2>3, <2>4, <2>5 DEF Numbered
<1>10. Locked'
  BY <1>1, <1>2, <1>3 DEF Rest, Locked
<1>11. ChainOwner' /\ OneHeadPerChain'
  BY <1>1, <1>6, <1>7, <1>8 DEF Rest, ChainOwner, OneHeadPerChain
<1>12. EndedStaysEnded'
  <2>1. f \notin ended
    BY <1>1 DEF Rest, Numbered
  <2> QED
    BY <1>1, <1>6, <1>7, <1>8, <2>1 DEF Rest, EndedStaysEnded
<1>13. ASSUME NEW S \in SUBSET Born, Covers(S) PROVE Covers(S)'
  BY <1>1, <1>6, <1>7, <1>8, <1>13 DEF Covers
<1>14. AllCovered'
  <2>1. ASSUME NEW v \in Workers
        PROVE  /\ task'[v].pc = "revoke" => Covers(task[v].found)'
               /\ Revoking(v)' => Covers(task[v].held)'
    <3>1. CASE v = w
      BY <1>2, <1>3, <3>1 DEF Covers
    <3>2. CASE v # w
      BY <1>2, <1>13, <3>2 DEF Rest, AllCovered, Numbered, Revoking, Covers
    <3> QED BY <3>1, <3>2
  <2> QED BY <2>1 DEF AllCovered
<1> QED BY <1>9, <1>10, <1>11, <1>12, <1>14 DEF Rest

LEMMA ClaimRest ==
    ASSUME TypeOK, Rest, NEW w \in Workers, ClaimForRotation(w)
    PROVE  Rest'
<1> DEFINE t == task[w].token
           k == [task[w] EXCEPT !.pc = "commit", !.held = {t},
                                !.fresh = nextToken]
<1>1. CASE ~Claimable(t)
  BY <1>1, FinishRest DEF ClaimForRotation, table
<1>2. CASE Claimable(t)
  <2>1. /\ task[w].pc = "claim" /\ Become(w, k) /\ nextToken' = nextToken + 1
        /\ nextToken \in Tokens /\ nextToken \in Nat /\ nextToken # 0
        /\ UNCHANGED <<present, owner, chain, replaced, revoked, ended, overtaken>>
    BY <1>2, BoundsAssumption DEF ClaimForRotation, table, ghosts, Tokens
  <2>2. t \in present \ revoked /\ replaced[t] = 0
    BY <1>2 DEF Claimable, IsUsable
  <2>3. /\ present \subseteq Tokens /\ Tokens \subseteq 0..MaxTokens
        /\ chain \in [Tokens -> 0..MaxTokens]
    BY BoundsAssumption DEF TypeOK, Tokens
  <2>4. k \in Task
    <3>1. {t} \in SUBSET Tokens /\ nextToken \in 0..MaxTokens
      BY <2>1, <2>2, <2>3
    <3> QED BY <3>1, TaskTyped DEF Task, Pcs
  <2>5. /\ k.pc = "commit" /\ k.held = {t} /\ k.fresh = nextToken
        /\ k.found = task[w].found /\ k.token = t
    BY TaskTyped DEF Task
  <2> HIDE DEF k
  <2>6. task'[w] = k /\ \A v \in Workers: v # w => task'[v] = task[v]
    BY <2>1, <2>4, BecomeTyped
  <2>7. \A v \in Workers: task[v].fresh \in 0..MaxTokens /\ task[v].fresh < nextToken
    BY TaskTyped DEF Rest, Numbered
  <2>8. Born \subseteq Born'
    BY <2>1, <2>5, <2>6 DEF Born, Tokens
  <2>9. task[w].fresh = 0
    BY <2>1 DEF Rest, Numbered
  <2>10. Numbered'
    <3>1. \A v \in Workers:
             /\ task'[v].found \subseteq Born'
             /\ task'[v].held \subseteq Born'
             /\ task'[v].fresh < nextToken'
             /\ task'[v].pc # "commit" => task'[v].fresh = 0 /\ task'[v].held = {}
      BY <2>1, <2>2, <2>5, <2>6, <2>7, <2>8 DEF Rest, Numbered
    <3>2. \A u, v \in Workers:
             task'[u].fresh = task'[v].fresh /\ task'[u].fresh # 0 => u = v
      BY <2>5, <2>6, <2>7 DEF Rest, Numbered
    <3>3. \A s \in Tokens: chain'[s] < nextToken'
      <4>1. \A s \in Tokens: chain[s] < nextToken
        BY DEF Rest, Numbered
      <4>2. \A s \in Tokens: chain[s] \in 0..MaxTokens
        BY <2>3
      <4>3. chain' = chain /\ nextToken' = nextToken + 1 /\ nextToken \in Nat
        BY <2>1
      <4> QED BY ONLY <4>1, <4>2, <4>3, BoundsAssumption
    <3>4. \A c \in ended': c < nextToken'
      BY <2>1 DEF Rest, Numbered, TypeOK
    <3> QED
      BY <2>1, <2>8, <3>1, <3>2, <3>3, <3>4 DEF Rest, Numbered
  <2>11. Locked'
    <3>1. \A v \in Workers: v # w => t \notin task[v].held
      BY DEF ClaimForRotation, RowLocked
    <3>2. \A u, v \in Workers: u # v => task'[u].held \cap task'[v].held = {}
      BY <2>5, <2>6, <3>1 DEF Rest, Locked
    <3> HIDE DEF t
    <3>3. ASSUME NEW v \in Workers, task'[v].fresh # 0
          PROVE  /\ task'[v].held = {task'[v].token}
                 /\ task'[v].token \in present' \ revoked'
                 /\ replaced'[task'[v].token] = 0
      BY <2>1, <2>2, <2>5, <2>6, <3>3 DEF Rest, Locked
    <3> QED BY <3>2, <3>3 DEF Locked
  <2>12. ChainOwner' /\ OneHeadPerChain' /\ EndedStaysEnded'
    BY <2>1 DEF Rest, ChainOwner, OneHeadPerChain, EndedStaysEnded
  <2>13. AllCovered'
    <3>1. ASSUME NEW v \in Workers
          PROVE  /\ task'[v].pc = "revoke" => Covers(task[v].found)'
                 /\ Revoking(v)' => Covers(task[v].held)'
      <4>1. CASE v = w
        BY <2>1, <2>5, <2>6, <4>1 DEF Revoking
      <4>2. CASE v # w
        BY <2>1, <2>6, <4>2 DEF Rest, AllCovered, Covers, Revoking
      <4> QED BY <4>1, <4>2
    <3> QED BY <3>1 DEF AllCovered
  <2> QED BY <2>10, <2>11, <2>12, <2>13 DEF Rest
<1> QED BY <1>1, <1>2

LEMMA CommitRotationRest ==
    ASSUME TypeOK, Rest, NEW w \in Workers, CommitRotation(w)
    PROVE  Rest'
<1> DEFINE t == task[w].token
           f == task[w].fresh
           c == chain[t]
<1>0. f # 0 /\ t \in present \ revoked /\ replaced[t] = 0 /\ task[w].held = {t}
  BY DEF CommitRotation, Rest, Locked
<1>1. /\ present' = present \cup {f}
      /\ chain' = [chain EXCEPT ![f] = c]
      /\ owner' = [owner EXCEPT ![f] = owner[t]]
      /\ replaced' = [replaced EXCEPT ![t] = f]
      /\ overtaken' = overtaken \cup {d \in {c}: \E v \in Workers: AwaitedBy(v, t)}
      /\ UNCHANGED <<revoked, ended, nextToken>>
  BY DEF CommitRotation, Save
<1>2. task'[w] = Idle /\ \A v \in Workers: v # w => task'[v] = task[v]
  BY BecomeTyped, IdleTyped DEF CommitRotation, Finish
<1>3. Idle.fresh = 0 /\ Idle.held = {} /\ Idle.found = {} /\ Idle.pc = "idle"
  BY DEF Idle
<1>4. f \in Tokens \ Born /\ f \notin present
  BY <1>0, FreshApart
<1>5. /\ present \subseteq Born /\ Born \subseteq Tokens /\ t \in Tokens
      /\ chain \in [Tokens -> 0..MaxTokens] /\ replaced \in [Tokens -> 0..MaxTokens]
      /\ owner \in [Tokens -> Users \cup {None}]
      /\ nextToken \in Nat /\ nextToken > 0
  BY <1>0, BoundsAssumption DEF TypeOK, Rest, Numbered, Born
<1>6. \A v \in Workers: task'[v].fresh # f
  BY <1>0, <1>2, <1>3 DEF Rest, Numbered
<1>7. Born \cup {f} \subseteq Born'
  <2>1. f < nextToken
    BY DEF Rest, Numbered
  <2>2. \A v \in Workers: \A s \in Born: task'[v].fresh # s
    BY <1>2, <1>3 DEF Born, Tokens
  <2> QED BY <1>1, <1>4, <1>6, <2>1, <2>2 DEF Born
<1>8. /\ chain'[f] = c /\ owner'[f] = owner[t]
      /\ \A s \in Tokens: s # f => chain'[s] = chain[s] /\ owner'[s] = owner[s]
      /\ replaced'[t] = f
      /\ \A s \in Tokens: s # t => replaced'[s] = replaced[s]
  BY <1>1, <1>4, <1>5
<1>9. \A s \in Born: chain'[s] = chain[s] /\ owner'[s] = owner[s]
  BY <1>4, <1>5, <1>8
<1>10. Numbered'
  <2>1. \A v \in Workers:
           /\ task'[v].found \subseteq Born'
           /\ task'[v].held \subseteq Born'
           /\ task'[v].fresh < nextToken'
           /\ task'[v].pc # "commit" => task'[v].fresh = 0 /\ task'[v].held = {}
    BY SMTT(30), <1>1, <1>2, <1>3, <1>5, <1>7 DEF Rest, Numbered
  <2>2. \A u, v \in Workers:
           task'[u].fresh = task'[v].fresh /\ task'[u].fresh # 0 => u = v
    BY <1>2, <1>3 DEF Rest, Numbered
  <2>3. \A s \in Tokens: chain'[s] < nextToken'
    BY <1>1, <1>5, <1>8 DEF Rest, Numbered
  <2>4. present' \subseteq Born'
    BY <1>1, <1>5, <1>7
  <2> QED
    BY SMTT(30), <1>1, <2>1, <2>2, <2>3, <2>4 DEF Rest, Numbered
<1>11. Locked'
  <2>1. \A u, v \in Workers: u # v => task'[u].held \cap task'[v].held = {}
    BY <1>2, <1>3 DEF Rest, Locked
  <2>2. ASSUME NEW v \in Workers, task'[v].fresh # 0
        PROVE  /\ task'[v].held = {task'[v].token}
               /\ task'[v].token \in present' \ revoked'
               /\ replaced'[task'[v].token] = 0
    <3>1. v # w /\ task'[v] = task[v]
      BY <1>2, <1>3, <2>2
    <3>2. /\ task[v].held = {task[v].token}
          /\ task[v].token \in present \ revoked
          /\ replaced[task[v].token] = 0
      BY <2>2, <3>1 DEF Rest, Locked
    <3>3. task[v].token # t
      BY SMTT(30), <1>0, <3>1, <3>2 DEF Rest, Locked
    <3> HIDE DEF t, f
    <3> QED BY <1>1, <1>5, <1>8, <3>1, <3>2, <3>3
  <2> QED BY <2>1, <2>2 DEF Locked
<1>12. ChainOwner'
  <2>1. \A s \in present: chain[s] = c => owner[s] = owner[t]
    BY SMTT(30), <1>0 DEF Rest, ChainOwner
  <2> QED BY <1>1, <1>4, <1>5, <1>8, <1>9, <2>1 DEF Rest, ChainOwner
<1>13. OneHeadPerChain'
  <2>1. \A s \in present: chain[s] = c /\ replaced[s] = 0 => s = t
    BY <1>0 DEF Rest, OneHeadPerChain
  <2>2. \A s \in present: chain'[s] = c => replaced'[s] # 0
    BY <1>0, <1>5, <1>8, <1>9, <2>1
  <2>3. \A s \in present: replaced'[s] = 0 => replaced[s] = 0
    BY <1>0, <1>5, <1>8
  <2> QED BY <1>1, <1>4, <1>5, <1>8, <1>9, <2>2, <2>3 DEF Rest, OneHeadPerChain
<1>14. EndedStaysEnded'
  <2>1. c \notin ended \ overtaken
    BY <1>0 DEF Rest, EndedStaysEnded
  <2> QED BY <1>1, <1>5, <1>8, <1>9, <2>1 DEF Rest, EndedStaysEnded
<1>15. ASSUME NEW S \in SUBSET Born, Covers(S), t \in S => c \in overtaken'
       PROVE  Covers(S)'
  <2>1. \A s \in S: chain[s] = c => c \in overtaken'
    BY <1>0, <1>1, <1>15 DEF Covers
  <2>2. \A s \in S: chain'[s] = chain[s]
    BY <1>9
  <2>3. \A s \in present: chain'[s] = chain[s]
    BY SMTT(30), <1>5, <1>9
  <2>4. ASSUME NEW s \in S, NEW r \in present' \ revoked', chain'[s] = chain'[r]
        PROVE  r \in S \/ chain'[r] \in overtaken'
    <3>1. CASE r = f
      BY <1>8, <2>1, <2>2, <2>4, <3>1
    <3>2. CASE r # f
      BY <1>1, <1>15, <2>2, <2>3, <2>4, <3>2 DEF Covers
    <3> QED BY <3>1, <3>2
  <2> QED BY <2>4 DEF Covers
<1>16. AllCovered'
  <2>1. ASSUME NEW v \in Workers
        PROVE  /\ task'[v].pc = "revoke" => Covers(task[v].found)'
               /\ Revoking(v)' => Covers(task[v].held)'
    <3>1. CASE v = w
      BY <1>2, <1>3, <3>1 DEF Covers, Revoking
    <3>2. CASE v # w
      <4>1. task'[v] = task[v]
        BY <1>2, <3>2
      <4>2. task[v].pc = "revoke" /\ t \in task[v].found => c \in overtaken'
        BY <1>1 DEF AwaitedBy
      <4>3. t \notin task[v].held
        BY <1>0, <3>2 DEF Rest, Locked
      <4>4. task[v].found \in SUBSET Born /\ task[v].held \in SUBSET Born
        BY DEF Rest, Numbered
      <4> QED
        BY <1>15, <4>1, <4>2, <4>3, <4>4 DEF Rest, AllCovered, Revoking, Covers
    <3> QED BY <3>1, <3>2
  <2> QED BY <2>1 DEF AllCovered
<1> QED BY <1>10, <1>11, <1>12, <1>13, <1>14, <1>16 DEF Rest

LEMMA SnapshotRest ==
    ASSUME TypeOK, Rest, NEW w \in Workers, Snapshot(w)
    PROVE  Rest'
<1> DEFINE S == Revocable(task[w])
           k == [task[w] EXCEPT !.pc = "revoke", !.found = S]
<1>1. /\ task[w].pc = "snapshot" /\ Become(w, k)
      /\ UNCHANGED <<present, owner, chain, replaced, revoked, nextToken, ended, overtaken>>
  BY DEF Snapshot, table, ghosts
<1>2. S \subseteq present /\ present \subseteq Born /\ present \subseteq Tokens
  BY DEF Revocable, Rest, Numbered, TypeOK
<1>3. /\ k \in Task /\ k.pc = "revoke" /\ k.found = S
      /\ k.held = task[w].held /\ k.fresh = task[w].fresh /\ k.token = task[w].token
  BY <1>2, TaskTyped DEF Task, Pcs
<1>4. Covers(S)
  <2>1. CASE task[w].chain # 0
    BY <2>1 DEF Covers, Revocable
  <2>2. CASE task[w].chain = 0
    BY <2>2 DEF Covers, Revocable, Rest, ChainOwner
  <2> QED BY <2>1, <2>2
<1> HIDE DEF k, S
<1>5. task'[w] = k /\ \A v \in Workers: v # w => task'[v] = task[v]
  BY <1>1, <1>3, BecomeTyped
<1>6. task[w].fresh = 0 /\ task[w].held = {}
  BY <1>1 DEF Rest, Numbered
<1>7. Born \subseteq Born'
  BY <1>1, <1>3, <1>5 DEF Born
<1>8. Numbered'
  BY <1>1, <1>2, <1>3, <1>5, <1>6, <1>7 DEF Rest, Numbered
<1>9. Locked'
  BY <1>1, <1>3, <1>5 DEF Rest, Locked
<1>10. ChainOwner' /\ OneHeadPerChain' /\ EndedStaysEnded'
  BY <1>1 DEF Rest, ChainOwner, OneHeadPerChain, EndedStaysEnded
<1>11. AllCovered'
  <2>1. ASSUME NEW v \in Workers
        PROVE  /\ task'[v].pc = "revoke" => Covers(task[v].found)'
               /\ Revoking(v)' => Covers(task[v].held)'
    <3>1. CASE v = w
      BY <1>1, <1>3, <1>4, <1>5, <3>1 DEF Covers, Revoking
    <3>2. CASE v # w
      BY <1>1, <1>5, <3>2 DEF Rest, AllCovered, Covers, Revoking
    <3> QED BY <3>1, <3>2
  <2> QED BY <2>1 DEF AllCovered
<1> QED BY <1>8, <1>9, <1>10, <1>11 DEF Rest

LEMMA RevokeRest ==
    ASSUME TypeOK, Rest, NEW w \in Workers, Revoke(w)
    PROVE  Rest'
<1> DEFINE S == task[w].found \cap (present \ revoked)
           k == [task[w] EXCEPT !.pc = "commit", !.held = S]
<1>1. /\ task[w].pc = "revoke" /\ Become(w, k)
      /\ \A v \in Workers \ {w}: task[w].found \cap task[v].held = {}
      /\ UNCHANGED <<present, owner, chain, replaced, revoked, nextToken, ended, overtaken>>
  BY DEF Revoke, RowLocked, table, ghosts
<1>2. S \subseteq task[w].found /\ task[w].found \subseteq Born
  BY DEF Rest, Numbered
<1>3. /\ k \in Task /\ k.pc = "commit" /\ k.found = task[w].found
      /\ k.held = S /\ k.fresh = task[w].fresh
  BY TaskTyped DEF Task, Pcs
<1>4. Covers(S)
  BY <1>1 DEF Covers, Rest, AllCovered
<1> HIDE DEF k, S
<1>5. task'[w] = k /\ \A v \in Workers: v # w => task'[v] = task[v]
  BY <1>1, <1>3, BecomeTyped
<1>6. task[w].fresh = 0 /\ task[w].held = {}
  BY <1>1 DEF Rest, Numbered
<1>7. Born \subseteq Born'
  BY <1>1, <1>3, <1>5 DEF Born
<1>8. Numbered'
  BY <1>1, <1>2, <1>3, <1>5, <1>6, <1>7 DEF Rest, Numbered
<1>9. Locked'
  BY <1>1, <1>2, <1>3, <1>5, <1>6 DEF Rest, Locked
<1>10. ChainOwner' /\ OneHeadPerChain' /\ EndedStaysEnded'
  BY <1>1 DEF Rest, ChainOwner, OneHeadPerChain, EndedStaysEnded
<1>11. AllCovered'
  <2>1. ASSUME NEW v \in Workers
        PROVE  /\ task'[v].pc = "revoke" => Covers(task[v].found)'
               /\ Revoking(v)' => Covers(task[v].held)'
    <3>1. CASE v = w
      BY <1>1, <1>3, <1>4, <1>5, <3>1 DEF Covers, Revoking
    <3>2. CASE v # w
      BY <1>1, <1>5, <3>2 DEF Rest, AllCovered, Covers, Revoking
    <3> QED BY <3>1, <3>2
  <2> QED BY <2>1 DEF AllCovered
<1> QED BY <1>8, <1>9, <1>10, <1>11 DEF Rest

LEMMA CommitRevocationRest ==
    ASSUME TypeOK, Rest, NEW w \in Workers, CommitRevocation(w)
    PROVE  Rest'
<1> DEFINE S == task[w].held
           open == [Idle EXCEPT !.pc = "open", !.op = "password",
                                !.user = task[w].user]
<1>1. /\ revoked' = revoked \cup S
      /\ ended' = ended \cup {chain[t] : t \in S}
      /\ UNCHANGED <<present, owner, chain, replaced, nextToken, overtaken>>
      /\ Revoking(w)
      /\ Become(w, open) \/ Become(w, Idle)
  BY DEF CommitRevocation, Finish, Revoking
<1>2. open \in Task /\ Quiet(open) /\ Quiet(Idle) /\ open.pc = "open" /\ Idle.pc = "idle"
  BY ZenonT(40), TaskTyped, IdleTyped DEF Task, Pcs, Ops, Quiet, Idle
<1> HIDE DEF open
<1>3. PICK k \in Task: /\ Quiet(k) /\ k.pc \notin {"commit", "revoke"}
                       /\ task'[w] = k
                       /\ \A v \in Workers: v # w => task'[v] = task[v]
  BY <1>1, <1>2, IdleTyped, BecomeTyped
<1>4. nextToken \in Nat /\ nextToken > 0 /\ S \subseteq Tokens
      /\ S \subseteq Born
  BY TaskTyped, BoundsAssumption DEF TypeOK, Rest, Numbered
<1>5. Born \subseteq Born'
  BY <1>1, <1>3 DEF Born, Tokens, Quiet
<1>6. Numbered'
  <2>1. \A v \in Workers:
           /\ task'[v].found \subseteq Born'
           /\ task'[v].held \subseteq Born'
           /\ task'[v].fresh < nextToken'
           /\ task'[v].pc # "commit" => task'[v].fresh = 0 /\ task'[v].held = {}
    BY <1>1, <1>3, <1>4, <1>5 DEF Rest, Numbered, Quiet
  <2>2. \A u, v \in Workers:
           task'[u].fresh = task'[v].fresh /\ task'[u].fresh # 0 => u = v
    BY SMTT(30), <1>3 DEF Rest, Numbered, Quiet
  <2>3. \A c \in ended': c < nextToken'
    BY <1>1, <1>4 DEF Rest, Numbered
  <2> QED
    BY SMTT(30), <1>1, <1>5, <2>1, <2>2, <2>3 DEF Rest, Numbered
<1>7. Locked'
  <2>1. \A u, v \in Workers: u # v => task'[u].held \cap task'[v].held = {}
    BY <1>3 DEF Rest, Locked, Quiet
  <2>2. ASSUME NEW v \in Workers, task'[v].fresh # 0
        PROVE  /\ task'[v].held = {task'[v].token}
               /\ task'[v].token \in present' \ revoked'
               /\ replaced'[task'[v].token] = 0
    <3>1. v # w /\ task'[v] = task[v]
      BY <1>3, <2>2 DEF Quiet
    <3>2. /\ task[v].held = {task[v].token}
          /\ task[v].token \in present \ revoked
          /\ replaced[task[v].token] = 0
      BY <2>2, <3>1 DEF Rest, Locked
    <3>3. task[v].token \notin S
      BY <3>1, <3>2 DEF Rest, Locked
    <3> HIDE DEF S
    <3> QED BY <1>1, <3>1, <3>2, <3>3
  <2> QED BY <2>1, <2>2 DEF Locked
<1>8. ChainOwner' /\ OneHeadPerChain'
  BY <1>1 DEF Rest, ChainOwner, OneHeadPerChain
<1>9. EndedStaysEnded'
  <2>1. Covers(S)
    BY <1>1 DEF Rest, AllCovered
  <2> QED BY <1>1, <2>1 DEF Rest, EndedStaysEnded, Covers
<1>10. AllCovered'
  <2>1. ASSUME NEW v \in Workers
        PROVE  /\ task'[v].pc = "revoke" => Covers(task[v].found)'
               /\ Revoking(v)' => Covers(task[v].held)'
    <3>1. CASE v = w
      BY <1>3, <3>1 DEF Revoking
    <3>2. CASE v # w
      BY <1>1, <1>3, <3>2 DEF Rest, AllCovered, Covers, Revoking
    <3> QED BY <3>1, <3>2
  <2> QED BY <2>1 DEF AllCovered
<1> QED BY <1>6, <1>7, <1>8, <1>9, <1>10 DEF Rest

LEMMA DeleteExpiredRest ==
    ASSUME TypeOK, Rest, DeleteExpired
    PROVE  Rest'
<1>1. /\ present' = present \ expired
      /\ UNCHANGED <<owner, chain, replaced, revoked, nextToken, task, ended, overtaken>>
      /\ \A w \in Workers: task[w].held \cap expired = {}
  BY DEF DeleteExpired, ghosts
<1>2. Numbered'
  BY SMTT(30), <1>1 DEF Rest, Numbered, Born
<1>3. Locked'
  BY <1>1 DEF Rest, Locked
<1>4. ChainOwner' /\ OneHeadPerChain' /\ EndedStaysEnded'
  BY <1>1 DEF Rest, ChainOwner, OneHeadPerChain, EndedStaysEnded
<1>5. AllCovered'
  BY <1>1 DEF Rest, AllCovered, Covers, Revoking
<1> QED BY <1>2, <1>3, <1>4, <1>5 DEF Rest

-----------------------------------------------------------------------------
(* The theorems. *)

LEMMA StepRest ==
    ASSUME TypeOK, Rest, NEW w \in Workers, Step(w)
    PROVE  Rest'
<1>1. CASE AccountStep(w)
  <2>1. task[w].pc # "commit" => task[w].fresh = 0 /\ task[w].held = {}
    BY DEF Rest, Numbered
  <2>2. UNCHANGED <<table, nextToken, ghosts>>
    BY <1>1, AccountShape
  <2>3. ASSUME NEW k \in Task, MovesOn(w, k) PROVE Rest'
    BY <2>1, <2>2, <2>3, QuietStep DEF MovesOn
  <2> QED BY <1>1, <2>2, <2>3, AccountShape, FinishRest
<1>2. CASE OpenSession(w)
  BY <1>2, OpenRest
<1>3. CASE Lookup(w)
  <2> DEFINE t == task[w].token
             a == [task[w] EXCEPT !.pc = "account", !.user = owner[t],
                                  !.chain = chain[t]]
             r == [task[w] EXCEPT !.pc = "snapshot", !.user = owner[t],
                                  !.chain = chain[t]]
  <2>1. task[w].fresh = 0 /\ task[w].held = {}
    BY <1>3 DEF Lookup, Rest, Numbered
  <2>2. ASSUME t \in present
        PROVE  /\ a \in Task /\ r \in Task
               /\ a.fresh = 0 /\ a.held = {} /\ a.found = task[w].found /\ a.pc = "account"
               /\ r.fresh = 0 /\ r.held = {} /\ r.found = task[w].found /\ r.pc = "snapshot"
    <3>1. t \in Tokens /\ owner[t] \in Users \cup {None} /\ chain[t] \in 0..MaxTokens
      BY <2>2 DEF TypeOK
    <3> QED BY ZenonT(40), <2>1, <3>1, TaskTyped DEF Task, Pcs
  <2>3. \/ t \in present /\ Become(w, a)
        \/ t \in present /\ Become(w, r)
        \/ Finish(w)
    BY <1>3 DEF Lookup
  <2>4. UNCHANGED <<table, nextToken, ghosts>>
    BY <1>3 DEF Lookup
  <2> HIDE DEF a, r
  <2> QED BY <2>2, <2>3, <2>4, QuietStep, FinishRest
<1>4. CASE ReadAccount(w)
  BY <1>4, GotoRest, FinishRest DEF ReadAccount, Pcs
<1> QED
  BY <1>1, <1>2, <1>3, <1>4, ClaimRest, CommitRotationRest,
     SnapshotRest, RevokeRest, CommitRevocationRest DEF Step, AccountStep

\* The invariant holds at first and every step of Next keeps it.
THEOREM Invariance == Spec => []IInv
<1>1. Init => IInv
  <2> SUFFICES ASSUME Init PROVE IInv
    OBVIOUS
  <2>1. TypeOK
    BY IdleTyped, BoundsAssumption DEF Init, TypeOK, Tokens
  <2>2. \A w \in Workers: task[w] = Idle
    BY DEF Init
  <2>3. Idle.fresh = 0 /\ Idle.held = {} /\ Idle.found = {} /\ Idle.pc = "idle"
    BY DEF Idle
  <2>4. Numbered /\ Locked
    BY <2>2, <2>3 DEF Init, Numbered, Locked, Tokens
  <2>5. AllCovered
    BY <2>2, <2>3 DEF AllCovered, Revoking
  <2> QED
    BY <2>1, <2>4, <2>5
    DEF Init, IInv, ChainOwner, OneHeadPerChain, EndedStaysEnded
<1>2. IInv /\ [Next]_vars => IInv'
  <2> SUFFICES ASSUME IInv, [Next]_vars PROVE IInv'
    OBVIOUS
  <2>1. TypeOK /\ Rest /\ TypeOK'
    BY NextTyped DEF IInv, Rest
  <2>2. Rest'
    <3>1. ASSUME NEW w \in Workers, Crash(w) PROVE Rest'
      BY <2>1, <3>1, FinishRest DEF Crash
    <3>2. ASSUME UNCHANGED <<table, nextToken, task, ghosts>> PROVE Rest'
      BY <2>1, <3>2 DEF table, ghosts, Rest, Numbered, Born, Locked, ChainOwner,
         OneHeadPerChain, AllCovered, Covers, Revoking, EndedStaysEnded
    <3>3. ASSUME NEW t \in Tokens, Expire(t) PROVE Rest'
      BY <3>2, <3>3 DEF Expire
    <3>4. CASE UNCHANGED vars
      BY <3>2, <3>4 DEF vars
    <3> QED
      BY <2>1, <3>1, <3>3, <3>4, StartRest, StepRest, DeleteExpiredRest DEF Next
  <2> QED BY <2>1, <2>2 DEF IInv, Rest
<1> QED BY <1>1, <1>2, PTL DEF Spec

\* The rows and the requests keep their shape.
THEOREM TypeCorrect == Spec => []TypeOK
<1>1. IInv => TypeOK
  BY DEF IInv
<1> QED BY <1>1, Invariance, PTL

\* However many requests present the token of a login at once, its chain
\* never has two rows that can be rotated.
THEOREM NoSplit == Spec => []OneHeadPerChain
<1>1. IInv => OneHeadPerChain
  BY DEF IInv
<1> QED BY <1>1, Invariance, PTL

\* A revoked chain stays revoked, unless it rotated while the revoking UPDATE
\* was waiting for its row.
THEOREM RevocationHolds == Spec => []EndedStaysEnded
<1>1. IInv => EndedStaysEnded
  BY DEF IInv
<1> QED BY <1>1, Invariance, PTL

\* No step un-revokes a row or gives a spent token another successor.
THEOREM SpentForGood == Spec => SpentOnce
<1> DEFINE Same == \A t \in Tokens: replaced[t] # 0 => replaced'[t] = replaced[t]
<1>1. IInv /\ [Next]_vars => [revoked \subseteq revoked' /\ Same]_vars
  <2> SUFFICES ASSUME IInv, Next PROVE revoked \subseteq revoked' /\ Same
    OBVIOUS
  <2>1. ASSUME NEW w \in Workers, CommitRotation(w)
        PROVE  revoked' = revoked /\ Same
    <3>1. task[w].fresh # 0 /\ replaced' = [replaced EXCEPT ![task[w].token] = task[w].fresh]
          /\ revoked' = revoked
      BY <2>1 DEF CommitRotation
    <3>2. replaced[task[w].token] = 0
      BY <3>1 DEF IInv, Locked
    <3> QED BY <3>1, <3>2 DEF IInv, TypeOK
  <2>2. ASSUME NEW w \in Workers, OpenSession(w) \/ CommitRevocation(w)
        PROVE  revoked \subseteq revoked' /\ replaced' = replaced
    BY SMTT(30), <2>2 DEF OpenSession, CommitRevocation
  <2>3. ASSUME NEW w \in Workers, Start(w) \/ Crash(w)
        PROVE  UNCHANGED table
    BY <2>3 DEF Start, StartLogin, StartRefresh, StartSignOut, StartDeactivate,
       StartActivate, StartPassword, StartReset,
       Crash
  <2>4. ASSUME NEW w \in Workers,
               AccountStep(w) \/ Lookup(w) \/ ReadAccount(w)
               \/ ClaimForRotation(w) \/ Snapshot(w) \/ Revoke(w)
        PROVE  UNCHANGED table
    BY <2>4, AccountShape DEF IInv, Lookup, ReadAccount, ClaimForRotation,
       Snapshot, Revoke
  <2>5. ASSUME (\E t \in Tokens: Expire(t)) \/ DeleteExpired
        PROVE  UNCHANGED <<replaced, revoked>>
    BY <2>5 DEF Expire, DeleteExpired, table
  <2> QED BY <2>1, <2>2, <2>3, <2>4, <2>5 DEF Next, Step, AccountStep, table
<1> QED BY <1>1, Invariance, PTL DEF Spec, SpentOnce

-----------------------------------------------------------------------------
(* A live chain has a head.  Again an invariant, on top of IInv. *)

\* Numbers that no row has yet carry no marks.
Unused ==
    /\ \A t \in Tokens: t >= nextToken =>
        replaced[t] = 0 /\ t \notin expired \cup revoked
    /\ \A w \in Workers: task[w].fresh # 0 =>
        /\ replaced[task[w].fresh] = 0
        /\ task[w].fresh \notin expired \cup revoked
        /\ task[w].token < task[w].fresh

\* The row that was not replaced is the newest of its chain.
Newest ==
    \A s, t \in present: chain[s] = chain[t] /\ replaced[t] = 0 => s <= t

\* The rows S take in every live row of a chain whose head they take.
Full(S) ==
    \A s \in S: \A t \in present \ revoked:
        (s \in present \ revoked /\ replaced[s] = 0 /\ chain[s] = chain[t])
            => t \in S

AllFull ==
    \A w \in Workers:
        /\ task[w].pc = "revoke" => Full(task[w].found)
        /\ Revoking(w) => Full(task[w].held)

HasHead ==
    \A t \in present \ (revoked \cup expired):
        \E h \in present \ (revoked \cup expired):
            chain[h] = chain[t] /\ replaced[h] = 0

HInv == Unused /\ Newest /\ AllFull /\ HasHead

LEMMA HeadsKept ==
    ASSUME TypeOK, HInv, NEW w \in Workers, NEW k \in Task, Become(w, k),
           UNCHANGED <<table, expired>>,
           nextToken' \in Nat, nextToken <= nextToken',
           k.fresh # 0 => /\ replaced[k.fresh] = 0
                          /\ k.fresh \notin expired \cup revoked
                          /\ k.token < k.fresh,
           k.pc = "revoke" => Full(k.found),
           k.pc = "commit" /\ k.fresh = 0 => Full(k.held)
    PROVE  HInv'
<1>1. task'[w] = k /\ \A v \in Workers: v # w => task'[v] = task[v]
  BY BecomeTyped
<1>2. UNCHANGED <<present, chain, replaced, revoked, expired>>
  BY DEF table
<1>3. Unused'
  <2>1. \A t \in Tokens: t >= nextToken' => t >= nextToken
    BY BoundsAssumption DEF TypeOK, Tokens
  <2>2. ASSUME NEW v \in Workers, task'[v].fresh # 0
        PROVE  /\ replaced'[task'[v].fresh] = 0
               /\ task'[v].fresh \notin expired' \cup revoked'
               /\ task'[v].token < task'[v].fresh
    BY SMTT(30), <1>1, <1>2, <2>2 DEF HInv, Unused
  <2> QED BY <1>2, <2>1, <2>2 DEF HInv, Unused
<1>4. Newest' /\ HasHead'
  BY <1>2 DEF HInv, Newest, HasHead
<1>5. AllFull'
  <2>1. ASSUME NEW v \in Workers
        PROVE  /\ task'[v].pc = "revoke" => Full(task[v].found)'
               /\ Revoking(v)' => Full(task[v].held)'
    <3>1. CASE v = w
      BY <1>1, <1>2, <3>1 DEF Full, Revoking
    <3>2. CASE v # w
      BY <1>1, <1>2, <3>2 DEF HInv, AllFull, Full, Revoking
    <3> QED BY <3>1, <3>2
  <2> QED BY <2>1 DEF AllFull
<1> QED BY <1>3, <1>4, <1>5 DEF HInv

LEMMA QuietHeads ==
    ASSUME TypeOK, HInv, NEW w \in Workers, NEW k \in Task, Become(w, k),
           UNCHANGED <<table, expired, nextToken>>,
           k.fresh = 0, k.held = {}, k.pc # "revoke"
    PROVE  HInv'
<1>1. nextToken' \in Nat /\ nextToken <= nextToken'
  BY BoundsAssumption DEF TypeOK
<1>2. Full(k.held)
  BY DEF Full
<1> QED BY <1>1, <1>2, HeadsKept

LEMMA FinishHeads ==
    ASSUME TypeOK, HInv, NEW w \in Workers, Finish(w),
           UNCHANGED <<table, expired, nextToken>>
    PROVE  HInv'
BY SMTT(30), IdleTyped, QuietHeads DEF Finish, Idle

LEMMA StartHeads ==
    ASSUME TypeOK, HInv, NEW w \in Workers, Start(w)
    PROVE  HInv'
<1>1. PICK k \in Task: Quiet(k) /\ Begin(w, k)
  BY StartShape
<1> QED BY <1>1, StartShape, QuietHeads DEF Begin, Quiet

LEMMA ClaimHeads ==
    ASSUME TypeOK, Rest, HInv, NEW w \in Workers, ClaimForRotation(w)
    PROVE  HInv'
<1> DEFINE t == task[w].token
           k == [task[w] EXCEPT !.pc = "commit", !.held = {t},
                                !.fresh = nextToken]
<1>1. CASE ~Claimable(t)
  BY <1>1, FinishHeads DEF ClaimForRotation
<1>2. CASE Claimable(t)
  <2>1. /\ Become(w, k) /\ nextToken' = nextToken + 1
        /\ nextToken \in Tokens /\ nextToken \in Nat /\ nextToken # 0
        /\ UNCHANGED <<table, expired>>
    BY <1>2, BoundsAssumption DEF ClaimForRotation, Tokens
  <2>2. t \in Tokens /\ t < nextToken
    BY <1>2 DEF Claimable, Rest, Numbered, Born
  <2>3. k \in Task
    <3>1. {t} \in SUBSET Tokens /\ nextToken \in 0..MaxTokens
      BY <2>1, <2>2 DEF Tokens
    <3> QED BY <3>1, TaskTyped DEF Task, Pcs
  <2>4. k.pc = "commit" /\ k.fresh = nextToken /\ k.token = t
    BY TaskTyped DEF Task
  <2> HIDE DEF k, t
  <2>5. replaced[nextToken] = 0 /\ nextToken \notin expired \cup revoked
    BY <2>1 DEF HInv, Unused
  <2> QED BY <2>1, <2>2, <2>3, <2>4, <2>5, HeadsKept
<1> QED BY <1>1, <1>2

LEMMA SnapshotHeads ==
    ASSUME TypeOK, Rest, HInv, NEW w \in Workers, Snapshot(w)
    PROVE  HInv'
<1> DEFINE S == Revocable(task[w])
           k == [task[w] EXCEPT !.pc = "revoke", !.found = S]
<1>1. /\ task[w].pc = "snapshot" /\ Become(w, k)
      /\ UNCHANGED <<table, expired>> /\ nextToken' = nextToken
      /\ nextToken \in Nat
  BY BoundsAssumption DEF Snapshot, TypeOK
<1>2. S \in SUBSET Tokens
  BY DEF Revocable, TypeOK
<1>3. k \in Task /\ k.pc = "revoke" /\ k.found = S /\ k.fresh = task[w].fresh
  BY <1>2, TaskTyped DEF Task, Pcs
<1>4. Full(S)
  <2>1. CASE task[w].chain # 0
    BY <2>1 DEF Full, Revocable
  <2>2. CASE task[w].chain = 0
    BY <2>2 DEF Full, Revocable, Rest, ChainOwner
  <2> QED BY <2>1, <2>2
<1>5. task[w].fresh = 0
  BY <1>1 DEF Rest, Numbered
<1> HIDE DEF k, S
<1> QED BY <1>1, <1>3, <1>4, <1>5, HeadsKept

LEMMA RevokeHeads ==
    ASSUME TypeOK, Rest, HInv, NEW w \in Workers, Revoke(w)
    PROVE  HInv'
<1> DEFINE S == task[w].found \cap (present \ revoked)
           k == [task[w] EXCEPT !.pc = "commit", !.held = S]
<1>1. /\ task[w].pc = "revoke" /\ Become(w, k)
      /\ UNCHANGED <<table, expired>> /\ nextToken' = nextToken
      /\ nextToken \in Nat
  BY BoundsAssumption DEF Revoke, TypeOK
<1>2. k \in Task /\ k.pc = "commit" /\ k.held = S /\ k.fresh = task[w].fresh
  BY TaskTyped DEF Task, Pcs
<1>3. Full(S)
  BY <1>1 DEF Full, HInv, AllFull
<1>4. task[w].fresh = 0
  BY <1>1 DEF Rest, Numbered
<1> HIDE DEF k, S
<1> QED BY <1>1, <1>2, <1>3, <1>4, HeadsKept

LEMMA OpenHeads ==
    ASSUME TypeOK, Rest, HInv, NEW w \in Workers, OpenSession(w)
    PROVE  HInv'
<1> DEFINE f == nextToken
<1>1. /\ f \in Tokens /\ f \in Nat /\ nextToken' = f + 1
      /\ present' = present \cup {f}
      /\ chain' = [chain EXCEPT ![f] = f]
      /\ UNCHANGED <<replaced, revoked, expired>>
  BY BoundsAssumption DEF OpenSession, Save, TypeOK, Tokens
<1>2. task'[w] = Idle /\ \A v \in Workers: v # w => task'[v] = task[v]
  BY BecomeTyped, IdleTyped DEF OpenSession, Finish
<1>3. Idle.fresh = 0 /\ Idle.pc = "idle"
  BY DEF Idle
<1>4. /\ chain \in [Tokens -> Nat] /\ present \subseteq Born /\ Born \subseteq Tokens
      /\ f \notin Born
      /\ \A t \in Tokens: chain[t] < f
  BY <1>1, BoundsAssumption DEF TypeOK, Rest, Numbered, Born
<1>5. /\ chain'[f] = f
      /\ \A t \in Born: chain'[t] = chain[t] /\ chain'[t] # f
  BY <1>1, <1>4
<1>6. replaced[f] = 0 /\ f \notin expired \cup revoked
  BY <1>1 DEF HInv, Unused, Tokens
<1>7. Unused'
  BY <1>1, <1>2, <1>3 DEF HInv, Unused, Tokens
<1>8. Newest'
  BY <1>1, <1>4, <1>5 DEF HInv, Newest, Tokens
<1>9. HasHead'
  BY <1>1, <1>4, <1>5, <1>6 DEF HInv, HasHead
<1>10. ASSUME NEW S \in SUBSET Born, Full(S) PROVE Full(S)'
  BY <1>1, <1>4, <1>5, <1>10 DEF Full
<1>11. AllFull'
  <2>1. ASSUME NEW v \in Workers
        PROVE  /\ task'[v].pc = "revoke" => Full(task[v].found)'
               /\ Revoking(v)' => Full(task[v].held)'
    <3>1. CASE v = w
      BY SMTT(30), <1>2, <1>3, <3>1 DEF Revoking
    <3>2. CASE v # w
      BY SMTT(30), <1>2, <1>10, <3>2 DEF Rest, HInv, AllFull, Numbered, Revoking, Full
    <3> QED BY <3>1, <3>2
  <2> QED BY <2>1 DEF AllFull
<1> QED BY <1>7, <1>8, <1>9, <1>11 DEF HInv

\* The successor becomes the head, and the newest row, of the chain.
LEMMA CommitRotationHeads ==
    ASSUME TypeOK, Rest, HInv, NEW w \in Workers, CommitRotation(w)
    PROVE  HInv'
<1> DEFINE t == task[w].token
           f == task[w].fresh
           c == chain[t]
<1>0. f # 0 /\ t \in present \ revoked /\ replaced[t] = 0
  BY DEF CommitRotation, Rest, Locked
<1>1. /\ present' = present \cup {f}
      /\ chain' = [chain EXCEPT ![f] = c]
      /\ replaced' = [replaced EXCEPT ![t] = f]
      /\ UNCHANGED <<revoked, expired, nextToken>>
  BY SMTT(30) DEF CommitRotation, Save
<1>2. task'[w] = Idle /\ \A v \in Workers: v # w => task'[v] = task[v]
  BY BecomeTyped, IdleTyped DEF CommitRotation, Finish
<1>3. Idle.fresh = 0 /\ Idle.pc = "idle"
  BY DEF Idle
<1>4. f \in Tokens \ Born
  BY SMTT(30), <1>0, FreshApart
<1>5. /\ present \subseteq Born /\ Born \subseteq Tokens /\ t \in Born
      /\ chain \in [Tokens -> 0..MaxTokens] /\ replaced \in [Tokens -> 0..MaxTokens]
  BY SMTT(30), <1>0 DEF TypeOK, Rest, Numbered, Born
<1>6. /\ chain'[f] = c /\ replaced'[t] = f
      /\ \A s \in Born: chain'[s] = chain[s]
      /\ \A s \in Tokens: s # t => replaced'[s] = replaced[s]
  BY <1>1, <1>4, <1>5
<1>7. replaced[f] = 0 /\ f \notin expired \cup revoked /\ t < f
  BY <1>0 DEF HInv, Unused
<1>8. f # t /\ replaced'[f] = 0
  BY <1>4, <1>5, <1>6, <1>7
\* t was the head of its chain, and no other row is.
<1>9. \A s \in present: chain[s] = c => replaced'[s] # 0 /\ s <= t
  <2>1. \A s \in present: chain[s] = c /\ replaced[s] = 0 => s = t
    BY <1>0 DEF Rest, OneHeadPerChain
  <2>2. \A s \in present: chain[s] = c => s <= t
    BY <1>0 DEF HInv, Newest
  <2> QED BY <1>0, <1>5, <1>6, <2>1, <2>2
<1>10. \A s \in Tokens: s # t /\ replaced[s] = 0 => replaced'[s] = 0
  BY <1>6
<1>11. Unused'
  <2>1. \A s \in Tokens: s >= nextToken => s # t
    BY <1>5, BoundsAssumption DEF Born, TypeOK, Tokens
  <2>2. ASSUME NEW v \in Workers, task'[v].fresh # 0
        PROVE  /\ replaced'[task'[v].fresh] = 0
               /\ task'[v].fresh \notin expired' \cup revoked'
               /\ task'[v].token < task'[v].fresh
    <3>1. task'[v] = task[v]
      BY <1>2, <1>3, <2>2
    <3>2. task[v].fresh \in Tokens \ Born
      BY <2>2, <3>1, FreshApart
    <3> HIDE DEF t, f
    <3> QED BY <1>1, <1>5, <1>10, <2>2, <3>1, <3>2 DEF HInv, Unused
  <2> HIDE DEF t, f
  <2> QED BY <1>1, <1>10, <2>1, <2>2 DEF HInv, Unused
<1> HIDE DEF t, f
<1>12. Newest'
  <2>1. ASSUME NEW r \in present', NEW s \in present', chain'[r] = chain'[s],
               replaced'[s] = 0
        PROVE  r <= s
    <3>0. \A x \in Tokens: x \in Nat
      BY DEF Tokens
    <3>1. CASE s = f
      BY <1>1, <1>4, <1>5, <1>6, <1>7, <1>9, <2>1, <3>0, <3>1
    <3>2. CASE s # f
      <4>1. s \in present /\ s # t /\ replaced[s] = 0 /\ chain[s] # c
        BY <1>0, <1>1, <1>5, <1>6, <1>9, <2>1, <3>2
      <4>2. r \in present /\ chain[r] = chain[s]
        BY <1>1, <1>5, <1>6, <2>1, <4>1
      <4> QED BY <4>1, <4>2 DEF HInv, Newest
    <3> QED BY <3>1, <3>2
  <2> QED BY <2>1 DEF Newest
<1>13. HasHead'
  <2>1. ASSUME NEW s \in present' \ (revoked' \cup expired')
        PROVE  \E h \in present' \ (revoked' \cup expired'):
                  chain'[h] = chain'[s] /\ replaced'[h] = 0
    <3>1. CASE s = f \/ chain[s] = c
      <4>1. chain'[s] = c
        BY <1>1, <1>5, <1>6, <2>1, <3>1
      <4> QED BY <1>1, <1>6, <1>7, <1>8, <4>1
    <3>2. CASE s # f /\ chain[s] # c
      <4>1. s \in present \ (revoked \cup expired)
        BY <1>1, <2>1, <3>2
      <4>2. PICK h \in present \ (revoked \cup expired):
                chain[h] = chain[s] /\ replaced[h] = 0
        BY <4>1 DEF HInv, HasHead
      <4>3. h # t
        BY <3>2, <4>2
      <4> QED BY <1>1, <1>5, <1>6, <1>10, <4>1, <4>2, <4>3
    <3> QED BY <3>1, <3>2
  <2> QED BY <2>1 DEF HasHead
<1>14. ASSUME NEW S \in SUBSET Born, Full(S) PROVE Full(S)'
  <2>1. ASSUME NEW s \in S, NEW r \in present' \ revoked',
               s \in present' \ revoked', replaced'[s] = 0, chain'[s] = chain'[r]
        PROVE  r \in S
    <3>1. s \in present \ revoked /\ chain'[s] = chain[s]
      BY <1>1, <1>4, <1>6, <2>1
    <3>2. chain[s] # c /\ s # t /\ replaced[s] = 0
      BY <1>5, <1>6, <1>9, <2>1, <3>1
    <3>3. r \in present \ revoked /\ chain[r] = chain[s]
      BY <1>1, <1>5, <1>6, <2>1, <3>1, <3>2
    <3> QED BY <1>14, <3>1, <3>2, <3>3 DEF Full
  <2> QED BY <2>1 DEF Full
<1>15. AllFull'
  <2>1. ASSUME NEW v \in Workers
        PROVE  /\ task'[v].pc = "revoke" => Full(task[v].found)'
               /\ Revoking(v)' => Full(task[v].held)'
    <3>1. CASE v = w
      BY <1>2, <1>3, <3>1 DEF Revoking
    <3>2. CASE v # w
      BY <1>2, <1>14, <3>2 DEF Rest, HInv, AllFull, Numbered, Revoking, Full
    <3> QED BY <3>1, <3>2
  <2> QED BY <2>1 DEF AllFull
<1> QED BY <1>11, <1>12, <1>13, <1>15 DEF HInv

\* A revocation that takes the head of a chain takes all that is live in it.
LEMMA CommitRevocationHeads ==
    ASSUME TypeOK, Rest, HInv, NEW w \in Workers, CommitRevocation(w)
    PROVE  HInv'
<1> DEFINE S == task[w].held
           open == [Idle EXCEPT !.pc = "open", !.op = "password",
                                !.user = task[w].user]
<1>1. /\ revoked' = revoked \cup S
      /\ UNCHANGED <<present, chain, replaced, expired, nextToken>>
      /\ Revoking(w)
      /\ Become(w, open) \/ Become(w, Idle)
  BY DEF CommitRevocation, Finish, Revoking
<1>2. /\ open \in Task /\ open.fresh = 0 /\ open.pc = "open"
      /\ Idle.fresh = 0 /\ Idle.pc = "idle"
  BY ZenonT(40), TaskTyped, IdleTyped DEF Task, Pcs, Ops, Idle
<1> HIDE DEF open
<1>3. /\ task'[w].fresh = 0 /\ task'[w].pc \notin {"commit", "revoke"}
      /\ \A v \in Workers: v # w => task'[v] = task[v]
  BY SMTT(30), <1>1, <1>2, IdleTyped, BecomeTyped
<1>4. S \subseteq Born /\ Full(S)
  BY SMTT(30), <1>1 DEF Rest, Numbered, HInv, AllFull
<1>5. Unused'
  <2>1. \A t \in Tokens: t >= nextToken => t \notin S
    BY SMTT(30), <1>4, BoundsAssumption DEF Born, TypeOK, Tokens
  <2>2. ASSUME NEW v \in Workers, task'[v].fresh # 0
        PROVE  /\ replaced'[task'[v].fresh] = 0
               /\ task'[v].fresh \notin expired' \cup revoked'
               /\ task'[v].token < task'[v].fresh
    <3>1. task'[v] = task[v]
      BY SMTT(30), <1>3, <2>2
    <3>2. task[v].fresh \in Tokens \ Born
      BY <2>2, <3>1, FreshApart
    <3> HIDE DEF S
    <3> QED BY <1>1, <1>4, <2>2, <3>1, <3>2 DEF HInv, Unused
  <2> QED BY <1>1, <2>1, <2>2 DEF HInv, Unused
<1>6. Newest'
  BY <1>1 DEF HInv, Newest
<1>7. HasHead'
  <2>1. ASSUME NEW t \in present' \ (revoked' \cup expired')
        PROVE  \E h \in present' \ (revoked' \cup expired'):
                  chain'[h] = chain'[t] /\ replaced'[h] = 0
    <3>1. t \in present \ (revoked \cup expired) /\ t \notin S
      BY <1>1, <2>1
    <3>2. PICK h \in present \ (revoked \cup expired):
              chain[h] = chain[t] /\ replaced[h] = 0
      BY <3>1 DEF HInv, HasHead
    <3>3. h \notin S
      BY <1>4, <3>1, <3>2 DEF Full
    <3> QED BY <1>1, <3>2, <3>3
  <2> QED BY <2>1 DEF HasHead
<1>8. AllFull'
  <2>1. ASSUME NEW v \in Workers
        PROVE  /\ task'[v].pc = "revoke" => Full(task[v].found)'
               /\ Revoking(v)' => Full(task[v].held)'
    <3>1. CASE v = w
      BY SMTT(30), <1>3, <3>1 DEF Revoking
    <3>2. CASE v # w
      BY <1>1, <1>3, <3>2 DEF HInv, AllFull, Full, Revoking
    <3> QED BY <3>1, <3>2
  <2> QED BY <2>1 DEF AllFull
<1> QED BY <1>5, <1>6, <1>7, <1>8 DEF HInv

\* The head of a chain is its newest row and expires after all others.
LEMMA ExpireHeads ==
    ASSUME TypeOK, Rest, HInv, NEW t \in Tokens, Expire(t)
    PROVE  HInv'
<1>1. /\ t \in present
      /\ expired' = expired \cup {t}
      /\ \A s \in present: chain[s] = chain[t] /\ s < t => s \in expired
      /\ UNCHANGED <<present, chain, replaced, revoked, nextToken, task>>
  BY SMTT(30) DEF Expire, table
<1>2. Unused'
  <2>1. t \in Born
    BY <1>1 DEF Rest, Numbered
  <2>2. \A v \in Workers: task[v].fresh # 0 => task[v].fresh # t
    BY <2>1 DEF Born
  <2>3. ~(t >= nextToken)
    BY SMTT(30), <2>1, BoundsAssumption DEF Born, TypeOK, Tokens
  <2> QED BY <1>1, <2>2, <2>3 DEF HInv, Unused
<1>3. Newest' /\ AllFull'
  BY <1>1 DEF HInv, Newest, AllFull, Full, Revoking
<1>4. HasHead'
  <2>1. ASSUME NEW s \in present' \ (revoked' \cup expired')
        PROVE  \E h \in present' \ (revoked' \cup expired'):
                  chain'[h] = chain'[s] /\ replaced'[h] = 0
    <3>1. s \in present \ (revoked \cup expired) /\ s # t
      BY <1>1, <2>1
    <3>2. PICK h \in present \ (revoked \cup expired):
              chain[h] = chain[s] /\ replaced[h] = 0
      BY <3>1 DEF HInv, HasHead
    <3>3. h # t
      <4>1. s <= h
        BY <3>1, <3>2 DEF HInv, Newest
      <4>2. s \in Nat /\ t \in Nat
        BY SMTT(30), <3>1 DEF TypeOK, Tokens
      <4> QED BY <1>1, <3>1, <3>2, <4>1, <4>2
    <3> QED BY <1>1, <3>2, <3>3
  <2> QED BY <2>1 DEF HasHead
<1> QED BY <1>2, <1>3, <1>4 DEF HInv

LEMMA DeleteExpiredHeads ==
    ASSUME HInv, DeleteExpired
    PROVE  HInv'
<1>1. /\ present' = present \ expired
      /\ UNCHANGED <<chain, replaced, revoked, expired, nextToken, task>>
  BY DEF DeleteExpired
<1> QED
  BY <1>1 DEF HInv, Unused, Newest, AllFull, Full, Revoking, HasHead

LEMMA StepHeads ==
    ASSUME TypeOK, Rest, HInv, NEW w \in Workers, Step(w)
    PROVE  HInv'
<1>0. task[w].pc # "commit" => task[w].fresh = 0 /\ task[w].held = {}
  BY DEF Rest, Numbered
<1>1. CASE AccountStep(w)
  <2>1. UNCHANGED <<table, expired, nextToken>>
    BY <1>1, AccountShape
  <2>2. ASSUME NEW k \in Task, MovesOn(w, k) PROVE HInv'
    BY SMTT(30), <1>0, <2>1, <2>2, QuietHeads DEF MovesOn
  <2> QED BY <1>1, <2>1, <2>2, AccountShape, FinishHeads
<1>2. CASE Lookup(w) \/ ReadAccount(w)
  <2>1. UNCHANGED <<table, expired, nextToken>> /\ task[w].pc # "commit"
    BY <1>2 DEF Lookup, ReadAccount
  <2> DEFINE t == task[w].token
             a == [task[w] EXCEPT !.pc = "account", !.user = owner[t],
                                  !.chain = chain[t]]
             r == [task[w] EXCEPT !.pc = "snapshot", !.user = owner[t],
                                  !.chain = chain[t]]
             g == [task[w] EXCEPT !.pc = "claim"]
  <2>2. t \in present => /\ a \in Task /\ r \in Task
                         /\ a.fresh = 0 /\ a.held = {} /\ a.pc = "account"
                         /\ r.fresh = 0 /\ r.held = {} /\ r.pc = "snapshot"
    <3> SUFFICES ASSUME t \in present
                 PROVE  /\ a \in Task /\ r \in Task
                        /\ a.fresh = 0 /\ a.held = {} /\ a.pc = "account"
                        /\ r.fresh = 0 /\ r.held = {} /\ r.pc = "snapshot"
      OBVIOUS
    <3>1. t \in Tokens /\ owner[t] \in Users \cup {None} /\ chain[t] \in 0..MaxTokens
      BY DEF TypeOK
    <3> QED BY ZenonT(40), <1>0, <2>1, <3>1, TaskTyped DEF Task, Pcs
  <2>3. g \in Task /\ g.fresh = 0 /\ g.held = {} /\ g.pc = "claim"
    BY <1>0, <2>1, TaskTyped DEF Task, Pcs
  <2>4. \/ t \in present /\ Become(w, a)
        \/ t \in present /\ Become(w, r)
        \/ Become(w, g)
        \/ Finish(w)
    BY <1>2 DEF Lookup, ReadAccount, Goto
  <2> HIDE DEF a, r, g
  <2> QED BY <2>1, <2>2, <2>3, <2>4, QuietHeads, FinishHeads
<1> QED
  BY <1>1, <1>2, OpenHeads, ClaimHeads, CommitRotationHeads, SnapshotHeads,
     RevokeHeads, CommitRevocationHeads DEF Step, AccountStep

\* chain_is_live never vouches for a login that cannot be refreshed any more.
THEOREM HeadRemains == Spec => []LiveChainHasHead
<1>1. Init => HInv
  <2> SUFFICES ASSUME Init PROVE HInv
    OBVIOUS
  <2>1. \A w \in Workers: task[w].fresh = 0 /\ task[w].pc = "idle"
    BY DEF Init, Idle
  <2>2. Unused
    BY <2>1 DEF Init, Unused
  <2> QED
    BY <2>1, <2>2 DEF Init, HInv, Newest, AllFull, Revoking, HasHead
<1>2. IInv /\ HInv /\ [Next]_vars => HInv'
  <2> SUFFICES ASSUME IInv, HInv, [Next]_vars PROVE HInv'
    OBVIOUS
  <2>1. TypeOK /\ Rest
    BY DEF IInv, Rest
  <2>2. ASSUME NEW w \in Workers, Crash(w) PROVE HInv'
    BY SMTT(30), <2>1, <2>2, FinishHeads DEF Crash
  <2>3. CASE UNCHANGED vars
    BY <2>3 DEF vars, table, HInv, Unused, Newest, AllFull, Full, Revoking, HasHead
  <2> QED
    BY <2>1, <2>2, <2>3, StartHeads, StepHeads, ExpireHeads, DeleteExpiredHeads
    DEF Next
<1>3. HInv => LiveChainHasHead
  BY DEF HInv, HasHead, LiveChainHasHead, ChainIsLive, IsUsable
<1> QED BY <1>1, <1>2, <1>3, Invariance, PTL DEF Spec

=============================================================================
