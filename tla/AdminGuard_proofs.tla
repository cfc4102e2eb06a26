-------------------------- MODULE AdminGuard_proofs --------------------------
(***************************************************************************)
(* There is always an administrator: for any number of threads, accounts,  *)
(* roles and requests, as long as no request makes new ones.               *)
(***************************************************************************)
EXTENDS AdminGuard, TLAPS

-----------------------------------------------------------------------------
(* The inductive invariant, of requests that add no administrators. *)

Power(u) == roles[u] \cap power

\* A request that is past the guard, asked or not.
Past(k) == k.pc \in {"load", "get", "wearers", "write"}

\* What a request asks for: nothing that makes an administrator.
Asks(k) ==
    /\ k.op = "activate" => ~k.lock /\ k.pc \notin {"lock", "count"}
    /\ k.op = "permissions" => ~k.wants
    /\ k.op = "deactivate" => ~k.wants
    /\ k.op = "roles" => k.new \cap power = {}

\* A request past the guard without the lock is about an account or a role
\* that does not carry admin:all, and puts no such role back.
Unguarded(k) ==
    Past(k) /\ ~k.lock =>
        /\ k.user # None => Power(k.user) = {}
        /\ k.role \notin power
        /\ k.new \cap power = {}

\* A request that holds the lock knows somebody else who remains, and the
\* entity it loaded has no role with admin:all that the account lost since.
Guarded(k) ==
    /\ k.lock => Past(k) \/ k.pc = "count"
    /\ k.pc = "count" => k.lock
    /\ k.lock /\ Past(k) => RemainingWithout(k) # {}
    /\ k.lock /\ k.op = "deactivate" /\ k.pc \in {"get", "write"} =>
        k.new \cap power \subseteq roles[k.user]

Sound(k) == Asks(k) /\ Unguarded(k) /\ Guarded(k)

OneLock == \A v, w \in Workers: task[v].lock /\ task[w].lock => v = w

EntityOps == {"deactivate", "activate", "roles"}

\* A request that saves an account names one, and no other loads one.
Aimed(k) ==
    /\ k.op \in EntityOps => k.user # None
    /\ k.pc = "load" => k.op \in EntityOps
    /\ k.pc = "wearers" => k.op = "deleterole"
    /\ k.pc \in {"lock", "count"} => k.op # "none"

IInv ==
    /\ TypeOK
    /\ \A w \in Workers: Aimed(task[w])
    /\ \A w \in Workers: Sound(task[w])
    /\ OneLock
    /\ AdministratorRemains
    /\ ~Growing

Shape == TypeOK /\ \A w \in Workers: Aimed(task[w])

-----------------------------------------------------------------------------
(* Tasks. *)

LEMMA IdleTyped == Idle \in Task /\ Aimed(Idle)
BY DEF Idle, Task, Pcs, Ops, Aimed, EntityOps

LEMMA TaskTyped ==
    ASSUME Shape, NEW w \in Workers
    PROVE  task[w] \in Task /\ Aimed(task[w])
BY DEF Shape, TypeOK

LEMMA BecomeTyped ==
    ASSUME Shape, NEW w \in Workers, NEW k \in Task, Become(w, k)
    PROVE  /\ task' \in [Workers -> Task]
           /\ task'[w] = k
           /\ \A v \in Workers: v # w => task'[v] = task[v]
BY DEF Shape, TypeOK, Become

\* A request begins without the lock, judged by the state it begins in.
LEMMA StartShape ==
    ASSUME Shape, NEW w \in Workers, Start(w)
    PROVE  \E k \in Task: /\ Begin(w, k) /\ Aimed(k) /\ ~k.lock
                          /\ ~Growing => Sound(k)
<1>0. accounts \subseteq Users /\ existing \subseteq Roles
      /\ power \subseteq {Admin} \cup Custom
  BY DEF Shape, TypeOK
<1> USE NoneAssumption
<1>1. CASE StartDeactivate(w)
  <2>1. PICK u \in accounts:
          Begin(w, [Idle EXCEPT !.op = "deactivate", !.user = u,
                      !.pc = IF IsAdministrator(u) THEN "lock" ELSE "load"])
    BY <1>1 DEF StartDeactivate
  <2> DEFINE k == [Idle EXCEPT !.op = "deactivate", !.user = u,
                      !.pc = IF IsAdministrator(u) THEN "lock" ELSE "load"]
  <2>2. k \in Task /\ Aimed(k) /\ ~k.lock
    BY <1>0, IdleTyped DEF Task, Pcs, Ops, Aimed, EntityOps, Idle
  <2>3. Sound(k)
    BY <1>0 DEF Sound, Asks, Unguarded, Guarded, Past, Power, Idle,
       IsAdministrator, Roles
  <2> HIDE DEF k
  <2> QED BY <2>1, <2>2, <2>3 DEF k
<1>2. CASE StartActivate(w)
  <2>1. PICK u \in accounts:
          /\ Growing \/ ~IsAdministrator(u)
          /\ Begin(w, [Idle EXCEPT !.op = "activate", !.user = u,
                                   !.pc = "load"])
    BY <1>2 DEF StartActivate
  <2> DEFINE k == [Idle EXCEPT !.op = "activate", !.user = u, !.pc = "load"]
  <2>2. k \in Task /\ Aimed(k) /\ ~k.lock
    BY <1>0, IdleTyped DEF Task, Pcs, Ops, Aimed, EntityOps, Idle
  <2>3. ~Growing => Sound(k)
    BY <1>0, <2>1 DEF Sound, Asks, Unguarded, Guarded, Past, Power, Idle,
       IsAdministrator, Roles
  <2> HIDE DEF k
  <2> QED BY <2>1, <2>2, <2>3 DEF k
<1>3. CASE StartDelete(w)
  <2>1. PICK u \in accounts:
          Begin(w, [Idle EXCEPT !.op = "delete", !.user = u,
                      !.pc = IF IsAdministrator(u) THEN "lock" ELSE "write"])
    BY <1>3 DEF StartDelete
  <2> DEFINE k == [Idle EXCEPT !.op = "delete", !.user = u,
                      !.pc = IF IsAdministrator(u) THEN "lock" ELSE "write"]
  <2>2. k \in Task /\ Aimed(k) /\ ~k.lock
    BY <1>0, IdleTyped DEF Task, Pcs, Ops, Aimed, EntityOps, Idle
  <2>3. Sound(k)
    BY <1>0 DEF Sound, Asks, Unguarded, Guarded, Past, Power, Idle,
       IsAdministrator, Roles
  <2> HIDE DEF k
  <2> QED BY <2>1, <2>2, <2>3 DEF k
<1>4. CASE StartRoles(w)
  <2>1. PICK u \in accounts, new \in SUBSET existing \ {{}}:
          /\ Growing \/ new \cap power = {}
          /\ Begin(w, [Idle EXCEPT !.op = "roles", !.user = u, !.new = new,
                        !.pc = IF IsAdministrator(u) /\ new \cap power = {}
                               THEN "lock" ELSE "load"])
    BY <1>4 DEF StartRoles
  <2> DEFINE k == [Idle EXCEPT !.op = "roles", !.user = u, !.new = new,
                        !.pc = IF IsAdministrator(u) /\ new \cap power = {}
                               THEN "lock" ELSE "load"]
  <2>2. k \in Task /\ Aimed(k) /\ ~k.lock
    BY <1>0, IdleTyped DEF Task, Pcs, Ops, Aimed, EntityOps, Idle
  <2>3. ~Growing => Sound(k)
    BY <1>0, <2>1 DEF Sound, Asks, Unguarded, Guarded, Past, Power, Idle,
       IsAdministrator, Roles
  <2> HIDE DEF k
  <2> QED BY <2>1, <2>2, <2>3 DEF k
<1>5. CASE StartPermissions(w)
  <2>1. PICK r \in Custom \cap existing, wants \in BOOLEAN:
          /\ Growing \/ ~wants
          /\ Begin(w, [Idle EXCEPT !.op = "permissions", !.role = r,
                        !.wants = wants,
                        !.pc = IF ~wants /\ r \in power THEN "lock" ELSE "get"])
    BY <1>5 DEF StartPermissions, Changeable
  <2> DEFINE k == [Idle EXCEPT !.op = "permissions", !.role = r,
                        !.wants = wants,
                        !.pc = IF ~wants /\ r \in power THEN "lock" ELSE "get"]
  <2>2. k \in Task /\ Aimed(k) /\ ~k.lock
    BY <1>0, IdleTyped DEF Task, Pcs, Ops, Aimed, EntityOps, Idle
  <2>3. ~Growing => Sound(k)
    BY <1>0, <2>1 DEF Sound, Asks, Unguarded, Guarded, Past, Power, Idle, Roles
  <2> HIDE DEF k
  <2> QED BY <2>1, <2>2, <2>3 DEF k
<1>6. CASE StartDeleteRole(w)
  <2>1. PICK r \in Custom \cap existing:
          Begin(w, [Idle EXCEPT !.op = "deleterole", !.role = r,
                     !.pc = IF r \in power THEN "lock" ELSE "wearers"])
    BY <1>6 DEF StartDeleteRole, Changeable
  <2> DEFINE k == [Idle EXCEPT !.op = "deleterole", !.role = r,
                     !.pc = IF r \in power THEN "lock" ELSE "wearers"]
  <2>2. k \in Task /\ Aimed(k) /\ ~k.lock
    BY <1>0, IdleTyped DEF Task, Pcs, Ops, Aimed, EntityOps, Idle
  <2>3. Sound(k)
    BY <1>0 DEF Sound, Asks, Unguarded, Guarded, Past, Power, Idle, Roles
  <2> HIDE DEF k
  <2> QED BY <2>1, <2>2, <2>3 DEF k
<1> QED BY <1>1, <1>2, <1>3, <1>4, <1>5, <1>6 DEF Start

LEMMA IdleSound == Sound(Idle)
BY DEF Idle, Sound, Asks, Unguarded, Guarded, Past

\* A request that reads on is sound if it was: the count is what it relies on
\* with the lock, the judgement without.
LEMMA ReadShape ==
    ASSUME Shape, NEW w \in Workers, Read(w)
    PROVE  \E k \in Task: /\ Become(w, k) /\ Aimed(k)
                          /\ k.lock => task[w].lock
                                       \/ \A v \in Workers: ~task[v].lock
                          /\ Sound(task[w]) => Sound(k)
<1> DEFINE t == task[w]
<1>0. /\ t \in Task /\ Aimed(t)
      /\ accounts \subseteq Users /\ roles \in [Users -> SUBSET Roles]
  BY TaskTyped DEF Shape, TypeOK
<1>i. Idle \in Task /\ Aimed(Idle) /\ ~Idle.lock /\ Sound(Idle)
  BY IdleTyped, IdleSound DEF Idle
<1>f. ASSUME Finish(w) PROVE Become(w, Idle)
  BY <1>f DEF Finish
<1>1. CASE Lock(w)
  <2> DEFINE k == [t EXCEPT !.pc = "count", !.lock = TRUE]
  <2>1. Become(w, k) /\ \A v \in Workers: ~task[v].lock
    BY <1>1 DEF Lock
  <2>2. k \in Task /\ Aimed(k)
    BY <1>0, <1>1 DEF Task, Pcs, Aimed, Lock
  <2>3. t.pc = "lock"
    BY <1>1 DEF Lock
  <2>4. Sound(t) => Sound(k)
    BY <1>0, <2>3 DEF Sound, Asks, Unguarded, Guarded, Past, Task
  <2> HIDE DEF k
  <2> QED BY <2>1, <2>2, <2>4
<1>2. CASE Count(w)
  <2>1. CASE RemainingWithout(t) = {}
    BY <1>2, <1>i, <1>f, <2>1 DEF Count
  <2>2. CASE RemainingWithout(t) # {}
    <3> DEFINE p == CASE t.op = "deleterole" -> "wearers"
                      [] t.op = "permissions" -> "get"
                      [] t.op = "delete" -> "write"
                      [] OTHER -> "load"
               k == [t EXCEPT !.pc = p]
    <3>1. Become(w, k) /\ t.pc = "count"
      BY <1>2, <2>2 DEF Count
    <3>2. /\ p \in {"wearers", "get", "write", "load"}
          /\ t.op = "deactivate" => p = "load"
          /\ p = "load" => t.op \in EntityOps
          /\ p = "wearers" => t.op = "deleterole"
      BY <1>0, <3>1 DEF Task, Ops, EntityOps, Aimed
    <3> HIDE DEF p
    <3>3. k \in Task /\ Aimed(k) /\ k.lock = t.lock
      BY <1>0, <3>2 DEF Task, Pcs, Aimed
    <3>4. Sound(t) => Sound(k)
      <4>1. RemainingWithout(k) = RemainingWithout(t)
        BY <1>0 DEF RemainingWithout, Task
      <4> QED
        BY <1>0, <2>2, <3>1, <3>2, <4>1
        DEF Sound, Asks, Unguarded, Guarded, Past, Task
    <3> HIDE DEF k
    <3> QED BY <3>1, <3>3, <3>4
  <2> QED BY <2>1, <2>2
<1>3. CASE Load(w)
  <2>1. CASE t.user \notin accounts
    BY <1>3, <1>i, <1>f, <2>1 DEF Load
  <2>2. CASE t.user \in accounts
    <3> DEFINE a == t.op = "activate" \/ (t.op = "roles" /\ t.user \in active)
               n == IF t.op = "roles" THEN t.new ELSE roles[t.user]
               k == [t EXCEPT !.pc = "get", !.wants = a, !.new = n]
    <3>1. Become(w, k) /\ t.pc = "load"
      BY <1>3, <2>2 DEF Load
    <3>2. a \in BOOLEAN /\ (t.op = "deactivate" => ~a)
      OBVIOUS
    <3>3. /\ n \in SUBSET Roles /\ t.user \in Users
          /\ t.op = "roles" => n = t.new
          /\ t.op # "roles" => n = roles[t.user]
      BY <1>0, <2>2 DEF Task
    <3>p. t.op # "permissions"
      BY <1>0, <3>1 DEF Aimed, EntityOps
    <3> HIDE DEF a, n
    <3>4. k \in Task /\ Aimed(k) /\ k.lock = t.lock
      BY <1>0, <3>2, <3>3 DEF Task, Pcs, Aimed
    <3>5. Sound(t) => Sound(k)
      <4>1. RemainingWithout(k) = RemainingWithout(t)
        BY <1>0 DEF RemainingWithout, Task
      <4> QED
        BY <1>0, <3>1, <3>2, <3>3, <3>p, <4>1, NoneAssumption
        DEF Sound, Asks, Unguarded, Guarded, Past, Task, Power
    <3> HIDE DEF k
    <3> QED BY <3>1, <3>4, <3>5
  <2> QED BY <2>1, <2>2
<1>4. CASE Get(w)
  <2> DEFINE j == [t EXCEPT !.pc = "write", !.was = t.role \in power]
             k == [t EXCEPT !.pc = "write",
                     !.there = t.user \in accounts, !.was = t.user \in active,
                     !.old = IF t.user \in accounts THEN roles[t.user] ELSE {}]
  <2>1. t.pc = "get" /\ (Finish(w) \/ Become(w, j) \/ Become(w, k))
    BY <1>4 DEF Get
  <2>2. ASSUME NEW a \in BOOLEAN, NEW b \in BOOLEAN, NEW o \in SUBSET Roles
        PROVE  LET h == [t EXCEPT !.pc = "write", !.there = a, !.was = b, !.old = o]
               IN  h \in Task /\ Aimed(h) /\ h.lock = t.lock
                   /\ (Sound(t) => Sound(h))
    <3> DEFINE h == [t EXCEPT !.pc = "write", !.there = a, !.was = b, !.old = o]
    <3>1. h \in Task /\ Aimed(h) /\ h.lock = t.lock
      BY <1>0 DEF Task, Pcs, Aimed
    <3>2. RemainingWithout(h) = RemainingWithout(t)
      BY <1>0 DEF RemainingWithout, Task
    <3>3. Sound(t) => Sound(h)
      BY <1>0, <2>1, <3>2 DEF Sound, Asks, Unguarded, Guarded, Past, Task
    <3> QED BY <3>1, <3>3
  <2>3. ASSUME NEW b \in BOOLEAN
        PROVE  LET h == [t EXCEPT !.pc = "write", !.was = b]
               IN  h \in Task /\ Aimed(h) /\ h.lock = t.lock
                   /\ (Sound(t) => Sound(h))
    <3> DEFINE h == [t EXCEPT !.pc = "write", !.was = b]
    <3>1. h \in Task /\ Aimed(h) /\ h.lock = t.lock
      BY <1>0 DEF Task, Pcs, Aimed
    <3>2. RemainingWithout(h) = RemainingWithout(t)
      BY <1>0 DEF RemainingWithout, Task
    <3>3. Sound(t) => Sound(h)
      BY <1>0, <2>1, <3>2 DEF Sound, Asks, Unguarded, Guarded, Past, Task
    <3> QED BY <3>1, <3>3
  <2>4. /\ (t.role \in power) \in BOOLEAN /\ (t.user \in accounts) \in BOOLEAN
        /\ (t.user \in active) \in BOOLEAN
    OBVIOUS
  <2>5. (IF t.user \in accounts THEN roles[t.user] ELSE {}) \in SUBSET Roles
    BY <1>0
  <2>6. j \in Task /\ Aimed(j) /\ j.lock = t.lock /\ (Sound(t) => Sound(j))
    BY ONLY <2>3, <2>4 DEF j
  <2>7. k \in Task /\ Aimed(k) /\ k.lock = t.lock /\ (Sound(t) => Sound(k))
    BY ONLY <2>2, <2>4, <2>5 DEF k
  <2> HIDE DEF j, k
  <2> QED BY <2>1, <2>6, <2>7, <1>i, <1>f
<1>5. CASE ReadWearers(w)
  <2> DEFINE k == [t EXCEPT !.pc = "write",
                     !.wearers = {u \in accounts: t.role \in roles[u]}]
  <2>1. Become(w, k) /\ t.pc = "wearers"
    BY <1>5 DEF ReadWearers
  <2>w. t.op = "deleterole"
    BY <1>0, <2>1 DEF Aimed
  <2>2. k \in Task /\ Aimed(k) /\ k.lock = t.lock
    BY <1>0 DEF Task, Pcs, Aimed
  <2>3. Sound(t) => Sound(k)
    <3>1. RemainingWithout(k) = RemainingWithout(t)
      BY <1>0 DEF RemainingWithout, Task
    <3> QED
      BY <1>0, <2>1, <3>1, <2>w DEF Sound, Asks, Unguarded, Guarded, Past, Task
  <2> HIDE DEF k
  <2> QED BY <2>1, <2>2, <2>3
<1> QED BY <1>1, <1>2, <1>3, <1>4, <1>5 DEF Read

-----------------------------------------------------------------------------
(* Writes. *)

LEMMA WriteTyped ==
    ASSUME Shape, NEW w \in Workers, Write(w)
    PROVE  /\ Finish(w)
           /\ accounts' \subseteq Users /\ active' \subseteq Users
           /\ roles' \in [Users -> SUBSET Roles]
           /\ existing' \subseteq Roles
           /\ power' \subseteq {Admin} \cup Custom
           /\ UNCHANGED started
<1> DEFINE k == task[w]
<1>0. /\ k \in Task /\ Aimed(k) /\ TypeOK
  BY TaskTyped DEF Shape
<1>1. CASE WriteDelete(w)
  BY <1>0, <1>1 DEF WriteDelete, TypeOK
<1>2. CASE WriteUser(w)
  <2>1. k.user \in Users /\ k.new \in SUBSET Roles /\ k.old \in SUBSET Roles
    BY <1>0, <1>2 DEF WriteUser, Writing, Aimed, EntityOps, Task
  <2> QED BY <1>0, <1>2, <2>1 DEF WriteUser, TypeOK
<1>3. CASE WritePermissions(w)
  <2>1. k.role \in existing => k.role \in Custom
    BY <1>0, NoneAssumption DEF Task, TypeOK
  <2> QED BY <1>0, <1>3, <2>1 DEF WritePermissions, TypeOK
<1>4. CASE WriteDeleteRole(w)
  BY <1>0, <1>4 DEF WriteDeleteRole, TypeOK, Roles
<1> QED BY <1>1, <1>2, <1>3, <1>4 DEF Write

\* What a write without the lock may do: nothing to whoever is an
\* administrator or has the roles of one.
Harmless ==
    /\ power' = power
    /\ \A u \in Users: roles'[u] \cap power \subseteq roles[u]
    /\ \A u \in Users: Power(u) # {} =>
        /\ roles[u] \cap power \subseteq roles'[u]
        /\ u \in accounts => u \in accounts'
        /\ u \in active => u \in active'

\* What a write with the lock may do: no role gains admin:all, and no account
\* gains such a role.
Shrinks ==
    /\ power' \subseteq power
    /\ \A u \in Users: roles'[u] \cap power' \subseteq roles[u]

LEMMA DeletedRole ==
    ASSUME NEW w \in Workers, WriteDeleteRole(w), task[w].role \in existing
    PROVE  \A u \in Users:
             \/ roles'[u] = roles[u] \ {task[w].role}
             \/ roles'[u] = {Default} /\ roles[u] \ {task[w].role} = {}
<1> DEFINE bare(u) == u \in task[w].wearers \cap accounts
                      /\ roles[u] \ {task[w].role} = {}
<1>1. roles' = [u \in Users |-> IF bare(u) THEN {Default}
                                ELSE roles[u] \ {task[w].role}]
  BY DEF WriteDeleteRole
<1>2. ASSUME NEW u \in Users
      PROVE  roles'[u] = IF bare(u) THEN {Default} ELSE roles[u] \ {task[w].role}
  BY <1>1
<1>3. \A u \in Users: bare(u) => roles[u] \ {task[w].role} = {}
  OBVIOUS
<1> HIDE DEF bare
<1> QED BY <1>2, <1>3

LEMMA UnlockedWrite ==
    ASSUME Shape, NEW w \in Workers, Sound(task[w]), ~task[w].lock, Write(w)
    PROVE  Harmless
<1> DEFINE k == task[w]
<1>0. /\ k \in Task /\ Aimed(k) /\ TypeOK
  BY TaskTyped DEF Shape
<1>p. k.pc = "write"
  BY DEF Write, WriteDelete, WriteUser, WritePermissions, WriteDeleteRole, Writing
<1>u. /\ k.user # None => Power(k.user) = {}
      /\ k.role \notin power
      /\ k.new \cap power = {}
  BY <1>p DEF Sound, Unguarded, Past
<1>1. CASE WriteDelete(w)
  <2>1. \A u \in Users: Power(u) # {} => u # k.user
    BY <1>u, NoneAssumption
  <2> QED BY <1>0, <1>1, <2>1 DEF WriteDelete, Harmless, TypeOK
<1>2. CASE WriteUser(w)
  <2>1. k.user \in Users /\ Power(k.user) = {}
    BY <1>0, <1>2, <1>u DEF WriteUser, Writing, Aimed, EntityOps, Task
  <2>2. \A u \in Users: u # k.user => roles'[u] = roles[u]
                          /\ (u \in accounts => u \in accounts')
                          /\ (u \in active => u \in active')
    BY <1>0, <1>2 DEF WriteUser, TypeOK
  <2>3. roles'[k.user] \cap power \subseteq roles[k.user]
    BY <1>0, <1>2, <1>u, <2>1 DEF WriteUser, TypeOK
  <2>4. power' = power
    BY <1>2 DEF WriteUser
  <2> QED BY <2>1, <2>2, <2>3, <2>4 DEF Harmless
<1>3. CASE WritePermissions(w)
  <2>1. ~k.wants
    BY <1>3 DEF WritePermissions, Writing, Sound, Asks
  <2>2. power' = power
    BY <1>3, <1>u, <2>1 DEF WritePermissions
  <2> QED BY <1>3, <2>2 DEF WritePermissions, Harmless
<1>4. CASE WriteDeleteRole(w)
  <2>1. Default \notin power
    BY <1>0, RolesAssumption DEF TypeOK
  <2>2. power' = power /\ accounts' = accounts /\ active' = active
    BY <1>4, <1>u DEF WriteDeleteRole
  <2>3. CASE k.role \notin existing
    BY <1>4, <2>2, <2>3 DEF WriteDeleteRole, Harmless
  <2>4. CASE k.role \in existing
    <3>1. \A u \in Users:
            \/ roles'[u] = roles[u] \ {k.role}
            \/ roles'[u] = {Default} /\ roles[u] \ {k.role} = {}
      BY <1>4, <2>4, DeletedRole
    <3> QED BY <1>u, <2>1, <2>2, <3>1 DEF Harmless, Power
  <2> QED BY <2>3, <2>4
<1> QED BY <1>1, <1>2, <1>3, <1>4 DEF Write

LEMMA LockedWrite ==
    ASSUME Shape, NEW w \in Workers, Sound(task[w]), task[w].lock, Write(w)
    PROVE  Shrinks /\ AdministratorRemains'
<1> DEFINE k == task[w]
<1>0. /\ k \in Task /\ Aimed(k) /\ TypeOK
  BY TaskTyped DEF Shape
<1>p. k.pc = "write"
  BY DEF Write, WriteDelete, WriteUser, WritePermissions, WriteDeleteRole, Writing
<1>r. PICK v \in accounts \cap active:
        v # k.user /\ (roles[v] \cap power) \ {k.role} # {}
  BY <1>p DEF Sound, Guarded, Past, RemainingWithout
<1>v. v \in Users
  BY <1>0 DEF TypeOK
<1>a. ASSUME v \in accounts' /\ v \in active' /\ roles'[v] \cap power' # {}
      PROVE  AdministratorRemains'
  BY <1>a DEF AdministratorRemains, Administrators, IsAdministrator
<1>1. CASE WriteDelete(w)
  BY <1>0, <1>1, <1>r, <1>v, <1>a DEF WriteDelete, Shrinks, TypeOK
<1>2. CASE WriteUser(w)
  <2>1. k.user \in Users /\ k.pc = "write" /\ k.op \in EntityOps
    BY <1>0, <1>2 DEF WriteUser, Writing, Aimed, EntityOps, Task
  <2>2. k.new \cap power \subseteq roles[k.user]
    BY <2>1 DEF Sound, Asks, Guarded, EntityOps
  <2>3. /\ power' = power
        /\ \A u \in Users: u # k.user => roles'[u] = roles[u]
                           /\ (u \in accounts => u \in accounts')
                           /\ (u \in active => u \in active')
    BY <1>0, <1>2 DEF WriteUser, TypeOK
  <2>4. roles'[k.user] \cap power \subseteq roles[k.user]
    BY <1>0, <1>2, <2>1, <2>2 DEF WriteUser, TypeOK
  <2> QED BY <2>3, <2>4, <1>r, <1>v, <1>a DEF Shrinks
<1>3. CASE WritePermissions(w)
  <2>1. ~k.wants
    BY <1>3 DEF WritePermissions, Writing, Sound, Asks
  <2>2. power' \subseteq power /\ power \ {k.role} \subseteq power'
    BY <1>3, <2>1 DEF WritePermissions
  <2> QED BY <1>3, <2>2, <1>r, <1>v, <1>a DEF WritePermissions, Shrinks
<1>4. CASE WriteDeleteRole(w)
  <2>1. Default \notin power
    BY <1>0, RolesAssumption DEF TypeOK
  <2>2. /\ power' \subseteq power /\ power \ {k.role} \subseteq power'
        /\ accounts' = accounts /\ active' = active
    BY <1>4 DEF WriteDeleteRole
  <2>3. CASE k.role \notin existing
    BY <1>4, <2>2, <2>3, <1>r, <1>v, <1>a DEF WriteDeleteRole, Shrinks
  <2>4. CASE k.role \in existing
    <3>1. \A u \in Users:
            \/ roles'[u] = roles[u] \ {k.role}
            \/ roles'[u] = {Default} /\ roles[u] \ {k.role} = {}
      BY <1>4, <2>4, DeletedRole
    <3>2. roles'[v] = roles[v] \ {k.role}
      BY <1>r, <1>v, <3>1
    <3> QED BY <2>1, <2>2, <3>1, <3>2, <1>r, <1>v, <1>a DEF Shrinks
  <2> QED BY <2>3, <2>4
<1> QED BY <1>1, <1>2, <1>3, <1>4 DEF Write

-----------------------------------------------------------------------------
(* The invariant is kept. *)

LEMMA ShapeKept == Shape /\ [Next]_vars => Shape'
<1> SUFFICES ASSUME Shape, [Next]_vars PROVE Shape'
  OBVIOUS
<1>1. ASSUME NEW w \in Workers, NEW k \in Task, Aimed(k), Become(w, k),
             UNCHANGED store, started' \in 0..MaxRequests
      PROVE  Shape'
  <2>1. task' \in [Workers -> Task] /\ \A v \in Workers: Aimed(task'[v])
    BY <1>1, BecomeTyped, TaskTyped
  <2>2. \A v \in Workers: Aimed(task[v])'
    BY <2>1 DEF Aimed
  <2> QED BY <1>1, <2>1, <2>2 DEF Shape, TypeOK, store
<1>2. started \in 0..MaxRequests
  BY DEF Shape, TypeOK
<1>3. ASSUME NEW w \in Workers, Start(w) PROVE Shape'
  <2>1. PICK k \in Task: /\ Begin(w, k) /\ Aimed(k) /\ ~k.lock
                         /\ ~Growing => Sound(k)
    BY <1>3, StartShape
  <2>2. started' \in 0..MaxRequests
    BY <1>2, <2>1, BoundsAssumption DEF Begin
  <2> QED BY <1>1, <2>1, <2>2 DEF Begin
<1>4. ASSUME NEW w \in Workers, Read(w) PROVE Shape'
  <2>1. PICK k \in Task: Become(w, k) /\ Aimed(k)
    BY <1>4, ReadShape
  <2>2. UNCHANGED <<store, started>>
    BY <1>4 DEF Read, Lock, Count, Load, Get, ReadWearers
  <2> QED BY <1>1, <1>2, <2>1, <2>2
<1>5. ASSUME NEW w \in Workers, Write(w) PROVE Shape'
  <2>1. task' \in [Workers -> Task] /\ \A v \in Workers: Aimed(task'[v])
    BY <1>5, WriteTyped, BecomeTyped, IdleTyped, TaskTyped DEF Finish
  <2>2. \A v \in Workers: Aimed(task[v])'
    BY <2>1 DEF Aimed
  <2>3. TypeOK'
    BY <1>2, <1>5, <2>1, WriteTyped DEF TypeOK
  <2> QED BY <2>2, <2>3 DEF Shape
<1>6. CASE UNCHANGED vars
  BY <1>6 DEF vars, store, Shape, TypeOK, Aimed
<1> QED BY <1>3, <1>4, <1>5, <1>6 DEF Next, Step

\* A request that does not move stays sound while others do what is harmless.
LEMMA HarmlessToOthers ==
    ASSUME Shape, NEW k \in Task, Aimed(k), Sound(k), Harmless
    PROVE  Asks(k)' /\ Unguarded(k)' /\ Guarded(k)'
<1>0. /\ power' = power
      /\ \A u \in Users: roles'[u] \cap power \subseteq roles[u]
      /\ k.user \in Users \cup {None}
      /\ accounts \subseteq Users
  BY DEF Harmless, Task, Shape, TypeOK
<1>1. Asks(k)'
  BY <1>0 DEF Sound, Asks
<1>2. Unguarded(k)'
  BY <1>0 DEF Sound, Unguarded, Past, Power
<1>3. RemainingWithout(k) # {} => RemainingWithout(k)' # {}
  <2> SUFFICES ASSUME NEW v \in RemainingWithout(k)
               PROVE  v \in RemainingWithout(k)'
    OBVIOUS
  <2>1. /\ v \in accounts \cap active /\ v \in Users /\ v # k.user
        /\ (roles[v] \cap power) \ {k.role} # {}
    BY <1>0 DEF RemainingWithout
  <2>2. Power(v) # {}
    BY <2>1 DEF Power
  <2>3. roles[v] \cap power \subseteq roles'[v] /\ v \in accounts' /\ v \in active'
    BY <2>1, <2>2 DEF Harmless
  <2> QED BY <1>0, <2>1, <2>3 DEF RemainingWithout
<1>4. ASSUME k.new \cap power \subseteq roles[k.user], k.user \in Users
      PROVE  k.new \cap power' \subseteq roles'[k.user]
  <2>1. CASE Power(k.user) = {}
    BY <1>0, <1>4, <2>1 DEF Power
  <2>2. CASE Power(k.user) # {}
    BY <1>0, <1>4, <2>2 DEF Harmless
  <2> QED BY <2>1, <2>2
<1>5. k.op = "deactivate" => k.user \in Users
  BY <1>0 DEF Aimed, EntityOps
<1>6. Guarded(k)'
  BY <1>3, <1>4, <1>5 DEF Sound, Guarded, Past
<1> QED BY <1>1, <1>2, <1>6

LEMMA ShrinkingToOthers ==
    ASSUME Shape, NEW k \in Task, Sound(k), ~k.lock, Shrinks
    PROVE  Asks(k)' /\ Unguarded(k)' /\ Guarded(k)'
<1>0. /\ power' \subseteq power
      /\ \A u \in Users: roles'[u] \cap power' \subseteq roles[u]
      /\ k.user \in Users \cup {None}
  BY DEF Shrinks, Task
<1>1. Asks(k)'
  BY <1>0 DEF Sound, Asks
<1>2. Unguarded(k)'
  BY <1>0 DEF Sound, Unguarded, Past, Power
<1>3. Guarded(k)'
  BY DEF Sound, Guarded
<1> QED BY <1>1, <1>2, <1>3

LEMMA HarmlessRemains ==
    ASSUME Shape, AdministratorRemains, Harmless
    PROVE  AdministratorRemains' /\ Administrators \subseteq Administrators'
<1>1. ASSUME NEW u \in Administrators PROVE u \in Administrators'
  <2>1. u \in Users /\ u \in accounts /\ u \in active /\ Power(u) # {}
    BY <1>1 DEF Administrators, IsAdministrator, Power, Shape, TypeOK
  <2>2. /\ u \in accounts' /\ u \in active' /\ power' = power
        /\ roles[u] \cap power \subseteq roles'[u]
    BY <2>1 DEF Harmless
  <2> QED BY <2>1, <2>2 DEF Administrators, IsAdministrator, Power
<1> QED BY <1>1 DEF AdministratorRemains

\* A step of w that leaves w with task k, which is sound, and the others with
\* theirs, which stay so.
LEMMA Composed ==
    ASSUME IInv, Shape', AdministratorRemains', NEW w \in Workers, NEW k \in Task,
           Become(w, k), Asks(k)' /\ Unguarded(k)' /\ Guarded(k)',
           k.lock => task[w].lock \/ \A v \in Workers: ~task[v].lock,
           \A v \in Workers: v # w =>
              Asks(task[v])' /\ Unguarded(task[v])' /\ Guarded(task[v])'
    PROVE  IInv'
<1>1. task'[w] = k /\ \A v \in Workers: v # w => task'[v] = task[v]
  BY BecomeTyped DEF IInv, Shape
<1>2. OneLock'
  BY <1>1 DEF IInv, OneLock
<1>3. \A v \in Workers: Sound(task[v])'
  BY <1>1 DEF Sound, Asks, Unguarded, Guarded, Past, Power, RemainingWithout
<1> QED BY <1>2, <1>3 DEF IInv, Shape

LEMMA InvariantKept == IInv /\ [Next]_vars => IInv'
<1> SUFFICES ASSUME IInv, [Next]_vars PROVE IInv'
  OBVIOUS
<1> USE DEF Sound
<1>0. Shape /\ Shape' /\ AdministratorRemains /\ OneLock /\ ~Growing
  BY ShapeKept DEF IInv, Shape
<1>s. \A v \in Workers: task[v] \in Task /\ Aimed(task[v]) /\ Sound(task[v])
  BY <1>0, TaskTyped DEF IInv
<1>o. ASSUME NEW v \in Workers, task'[v] = task[v],
             Harmless \/ (Shrinks /\ ~task[v].lock)
      PROVE  Asks(task[v])' /\ Unguarded(task[v])' /\ Guarded(task[v])'
  <2>1. PICK c \in Task: c = task[v]
    BY <1>s
  <2>2. Aimed(c) /\ Sound(c) /\ (Harmless \/ (Shrinks /\ ~c.lock))
    BY <1>s, <1>o, <2>1
  <2>3. Asks(c)' /\ Unguarded(c)' /\ Guarded(c)'
    BY <1>0, <2>2, HarmlessToOthers, ShrinkingToOthers
  <2>4. task'[v] = c
    BY <1>o, <2>1
  <2> QED
    BY <2>3, <2>4 DEF Asks, Unguarded, Guarded, Past, Power, RemainingWithout
<1>h. ASSUME UNCHANGED store PROVE Harmless
  BY <1>h DEF store, Harmless
<1>q. ASSUME NEW w \in Workers, NEW k \in Task, Become(w, k), UNCHANGED store,
             Sound(k), k.lock => task[w].lock \/ \A v \in Workers: ~task[v].lock
      PROVE  IInv'
  <2>1. Asks(k)' /\ Unguarded(k)' /\ Guarded(k)'
    BY <1>q DEF store, Asks, Unguarded, Guarded, Past, Power, RemainingWithout
  <2>2. \A v \in Workers: v # w => task'[v] = task[v]
    BY <1>0, <1>q, BecomeTyped
  <2>3. Harmless /\ AdministratorRemains'
    BY <1>0, <1>h, <1>q, HarmlessRemains
  <2>4. \A v \in Workers: v # w =>
          Asks(task[v])' /\ Unguarded(task[v])' /\ Guarded(task[v])'
    BY <1>o, <2>2, <2>3
  <2> QED BY <1>0, <1>q, <2>1, <2>3, <2>4, Composed
<1>1. ASSUME NEW w \in Workers, Start(w) PROVE IInv'
  <2>1. PICK k \in Task: /\ Begin(w, k) /\ Aimed(k) /\ ~k.lock
                         /\ ~Growing => Sound(k)
    BY <1>0, <1>1, StartShape
  <2> QED BY <1>0, <1>q, <2>1 DEF Begin
<1>2. ASSUME NEW w \in Workers, Read(w) PROVE IInv'
  <2>1. PICK k \in Task: /\ Become(w, k) /\ Aimed(k)
                         /\ k.lock => task[w].lock
                                       \/ \A v \in Workers: ~task[v].lock
                         /\ Sound(task[w]) => Sound(k)
    BY <1>0, <1>2, ReadShape
  <2>2. UNCHANGED store
    BY <1>2 DEF Read, Lock, Count, Load, Get, ReadWearers
  <2> QED BY <1>s, <1>q, <2>1, <2>2
<1>3. ASSUME NEW w \in Workers, Write(w) PROVE IInv'
  <2>1. Become(w, Idle) /\ Idle \in Task /\ ~Idle.lock
    BY <1>0, <1>3, WriteTyped, IdleTyped DEF Finish, Idle
  <2>2. Asks(Idle)' /\ Unguarded(Idle)' /\ Guarded(Idle)'
    BY DEF Idle, Asks, Unguarded, Guarded, Past
  <2>3. \A v \in Workers: v # w => task'[v] = task[v]
    BY <1>0, <2>1, BecomeTyped
  <2>4. CASE ~task[w].lock
    <3>1. Harmless
      BY <1>0, <1>s, <1>3, <2>4, UnlockedWrite
    <3>2. AdministratorRemains'
      BY <1>0, <3>1, HarmlessRemains
    <3>3. \A v \in Workers: v # w =>
            Asks(task[v])' /\ Unguarded(task[v])' /\ Guarded(task[v])'
      BY <1>o, <2>3, <3>1
    <3> QED BY <1>0, <2>1, <2>2, <3>2, <3>3, Composed
  <2>5. CASE task[w].lock
    <3>1. Shrinks /\ AdministratorRemains'
      BY <1>0, <1>s, <1>3, <2>5, LockedWrite
    <3>2. \A v \in Workers: v # w => ~task[v].lock
      BY <1>0, <2>5 DEF OneLock
    <3>3. \A v \in Workers: v # w =>
            Asks(task[v])' /\ Unguarded(task[v])' /\ Guarded(task[v])'
      BY <1>o, <2>3, <3>1, <3>2
    <3> QED BY <1>0, <2>1, <2>2, <3>1, <3>3, Composed
  <2> QED BY <2>4, <2>5
<1>4. CASE UNCHANGED vars
  <2>1. UNCHANGED <<accounts, active, roles, existing, power, task>>
    BY <1>4 DEF vars, store
  <2> QED
    BY <1>0, <2>1 DEF IInv, Shape, Asks, Unguarded, Guarded, Past, Power,
       RemainingWithout, OneLock, AdministratorRemains, Administrators,
       IsAdministrator
<1> QED BY <1>1, <1>2, <1>3, <1>4 DEF Next, Step

\* The invariant holds of every behaviour in which no request hands out
\* admin:all or activates somebody who has it.
THEOREM Invariance == ~Growing /\ Spec => []IInv
<1>1. ~Growing /\ Init => IInv
  <2> SUFFICES ASSUME ~Growing, Init PROVE IInv
    OBVIOUS
  <2>1. TypeOK
    BY IdleTyped, BoundsAssumption DEF Init, TypeOK
  <2>2. \A w \in Workers: task[w] = Idle
    BY DEF Init
  <2>3. \A w \in Workers: Aimed(task[w]) /\ Sound(task[w]) /\ ~task[w].lock
    BY <2>2, IdleTyped, IdleSound DEF Idle
  <2> QED
    BY <2>1, <2>3 DEF Init, IInv, OneLock, AdministratorRemains
<1> QED BY <1>1, InvariantKept, PTL DEF Spec

\* The tables and the requests keep their shape, whatever is requested.
THEOREM TypeCorrect == Spec => []TypeOK
<1>1. Init => Shape
  BY IdleTyped, BoundsAssumption DEF Init, TypeOK, Shape
<1>2. Shape => TypeOK
  BY DEF Shape
<1> QED BY <1>1, <1>2, ShapeKept, PTL DEF Spec

\* With any number of administrators, accounts, roles and threads: removals,
\* deactivations, demotions, stripped roles and deleted roles that overlap
\* never leave the system without an active administrator.
THEOREM GuardHolds == ~Growing /\ Spec => []AdministratorRemains
<1>1. IInv => AdministratorRemains
  BY DEF IInv
<1> QED BY <1>1, Invariance, PTL

\* Whoever stops being an administrator does so by the write of the request
\* that holds the lock.
THEOREM LossesUnderLock == ~Growing /\ Spec => LossesAreSerialised
<1> DEFINE P == ~(Administrators \subseteq Administrators') =>
                  \E w \in Workers: task[w].lock /\ task[w].pc = "write"
                                    /\ task'[w].pc = "idle"
<1>1. IInv /\ [Next]_vars => [P]_vars
  <2> SUFFICES ASSUME IInv, Next PROVE P
    OBVIOUS
  <2>0. Shape /\ AdministratorRemains
        /\ \A v \in Workers: task[v] \in Task /\ Sound(task[v])
    BY TaskTyped DEF IInv, Shape
  <2>1. ASSUME NEW w \in Workers, Start(w) \/ Read(w) PROVE P
    <3>1. UNCHANGED <<accounts, active, roles, power>>
      BY <2>1 DEF Start, StartDeactivate, StartActivate, StartDelete, StartRoles,
         StartPermissions, StartDeleteRole, Begin, Read, Lock, Count, Load, Get,
         ReadWearers, store
    <3> QED BY <3>1 DEF Administrators, IsAdministrator
  <2>2. ASSUME NEW w \in Workers, Write(w) PROVE P
    <3>1. CASE ~task[w].lock
      BY <2>0, <2>2, <3>1, UnlockedWrite, HarmlessRemains
    <3>2. CASE task[w].lock
      <4>1. task[w].pc = "write"
        BY <2>2 DEF Write, WriteDelete, WriteUser, WritePermissions,
           WriteDeleteRole, Writing
      <4>2. task'[w] = Idle
        BY <2>0, <2>2, WriteTyped, BecomeTyped, IdleTyped DEF Finish
      <4> QED BY <3>2, <4>1, <4>2 DEF Idle
    <3> QED BY <3>1, <3>2
  <2> QED BY <2>1, <2>2 DEF Next, Step
<1> QED BY <1>1, Invariance, PTL DEF Spec, LossesAreSerialised

=============================================================================
