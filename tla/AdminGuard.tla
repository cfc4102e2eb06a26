----------------------------- MODULE AdminGuard -----------------------------
(***************************************************************************)
(* Who holds `admin:all`: accounts, their roles and the roles' permission, *)
(* and the administrative requests that change them.  Each request is one  *)
(* transaction at READ COMMITTED.  It judges the account or the role it is *)
(* about; if an administrator might go, it takes the advisory lock and     *)
(* counts who would remain; then it loads the entity, changes it and saves *)
(* it.                                                                     *)
(*                                                                         *)
(* The session of the ORM refers to its objects weakly and repositories    *)
(* return entities, so every call reads the row again.  Saving compares    *)
(* the whole entity with one more reading (`get`) and writes the           *)
(* difference: is_active, association rows to insert, association rows to  *)
(* delete; a difference that no longer applies fails the transaction.  An  *)
(* account that is missing at that reading is inserted.  The write is one  *)
(* step with its commit, because nothing of it is visible before.          *)
(***************************************************************************)
EXTENDS Naturals, FiniteSets

CONSTANTS
    Workers,        \* threads that serve administrative requests
    Users,          \* accounts
    Admin, Default, \* the system roles `admin` and default_role_name
    Custom,         \* roles made by administrators
    Growing,        \* TRUE: requests may also make administrators, by
                    \* handing out `admin:all` or activating an account
    MaxRequests,    \* bound on the requests ever started
    None            \* no account, no role

Roles == {Admin, Default} \cup Custom

ASSUME RolesAssumption == Admin # Default /\ Default \notin Custom
ASSUME NoneAssumption == None \notin Users \cup Roles
ASSUME BoundsAssumption == MaxRequests \in Nat /\ Growing \in BOOLEAN

VARIABLES
    accounts,   \* accounts that have a row
    active,     \* accounts with is_active
    roles,      \* roles[u]: the roles of account u
    existing,   \* roles that have a row
    power,      \* roles that carry the permission `admin:all`
    task,       \* task[w]: what worker w is doing
    started     \* requests started so far

store == <<accounts, active, roles, existing, power>>
vars == <<store, task, started>>

Pcs == {"idle", "lock", "count", "load", "get", "wearers", "write"}
Ops == {"none", "deactivate", "activate", "delete", "roles", "permissions",
        "deleterole"}

Task == [pc: Pcs, op: Ops,
         user: Users \cup {None}, role: Custom \cup {None},  \* what it is about
         wants: BOOLEAN,           \* the entity: is_active, or that the role
                                   \* carries admin:all
         new: SUBSET Roles,        \* the entity: roles
         there: BOOLEAN,           \* the row, as save read it: present,
         was: BOOLEAN,             \*   is_active or admin:all,
         old: SUBSET Roles,        \*   roles
         wearers: SUBSET Users,    \* who wore the role before its deletion
         lock: BOOLEAN]            \* holds the administrator-set lock

Idle == [pc |-> "idle", op |-> "none", user |-> None, role |-> None,
         wants |-> FALSE, new |-> {}, there |-> FALSE, was |-> FALSE,
         old |-> {}, wearers |-> {}, lock |-> FALSE]

Become(w, k) == task' = [task EXCEPT ![w] = k]
Finish(w) == Become(w, Idle)

-----------------------------------------------------------------------------
(* The guard. *)

IsAdministrator(u) == roles[u] \cap power # {}

Administrators == {u \in accounts \cap active: IsAdministrator(u)}

\* Slip: the account the request is about is counted as remaining.
RemainingWithout_All(k) == Administrators

\* count_active_with_permission, excluding an account or a role.
RemainingWithout(k) ==
    {u \in accounts \cap active:
        /\ u # k.user
        /\ (roles[u] \cap power) \ {k.role} # {}}

\* The roles that are not system roles.
Changeable == Custom \cap existing

\* The first statements of a request: it was read and judged.
Begin(w, k) ==
    /\ task[w].pc = "idle"
    /\ started < MaxRequests
    /\ started' = started + 1
    /\ Become(w, k)
    /\ UNCHANGED store

\* Only an administrator may act on one, or hand out what makes one.
MayTouch(touches) == touches => Administrators # {}

-----------------------------------------------------------------------------
Init ==
    /\ accounts = Users
    /\ active \in SUBSET Users
    /\ roles \in [Users -> SUBSET Roles \ {{}}]
    /\ existing = Roles
    /\ power \in {{Admin} \cup C : C \in SUBSET Custom}
    /\ Administrators # {}
    /\ task = [w \in Workers |-> Idle]
    /\ started = 0

-----------------------------------------------------------------------------
(* What a request is asked, and what it judges by. *)

StartDeactivate(w) ==
    \E u \in accounts:
        /\ MayTouch(IsAdministrator(u))
        /\ Begin(w, [Idle EXCEPT !.op = "deactivate", !.user = u,
                        !.pc = IF IsAdministrator(u) THEN "lock" ELSE "load"])

StartActivate(w) ==
    \E u \in accounts:
        /\ Growing \/ ~IsAdministrator(u)
        /\ MayTouch(IsAdministrator(u))
        /\ Begin(w, [Idle EXCEPT !.op = "activate", !.user = u,
                                 !.pc = "load"])

StartDelete(w) ==
    \E u \in accounts:
        /\ MayTouch(IsAdministrator(u))
        /\ Begin(w, [Idle EXCEPT !.op = "delete", !.user = u,
                        !.pc = IF IsAdministrator(u) THEN "lock" ELSE "write"])

\* The guard is asked when the account is an administrator and the new roles
\* would not keep it one.
StartRoles(w) ==
    \E u \in accounts, new \in SUBSET existing \ {{}}:
        /\ Growing \/ new \cap power = {}
        /\ MayTouch(IsAdministrator(u) \/ new \cap power # {})
        /\ Begin(w, [Idle EXCEPT !.op = "roles", !.user = u, !.new = new,
                        !.pc = IF IsAdministrator(u) /\ new \cap power = {}
                               THEN "lock" ELSE "load"])

StartPermissions(w) ==
    \E r \in Changeable, wants \in BOOLEAN:
        /\ Growing \/ ~wants
        /\ MayTouch(wants)
        /\ Begin(w, [Idle EXCEPT !.op = "permissions", !.role = r,
                        !.wants = wants,
                        !.pc = IF ~wants /\ r \in power THEN "lock" ELSE "get"])

StartDeleteRole(w) ==
    \E r \in Changeable:
        Begin(w, [Idle EXCEPT !.op = "deleterole", !.role = r,
                     !.pc = IF r \in power THEN "lock" ELSE "wearers"])

-----------------------------------------------------------------------------
(* The lock and the count. *)

\* pg_advisory_xact_lock, held until the transaction ends.
Lock(w) ==
    /\ task[w].pc = "lock"
    /\ \A v \in Workers: ~task[v].lock
    /\ Become(w, [task[w] EXCEPT !.pc = "count", !.lock = TRUE])
    /\ UNCHANGED <<store, started>>

\* Slip: a refusal leaves the lock with the connection.
Count_Keeps(w) ==
    /\ task[w].pc = "count"
    /\ \/ RemainingWithout(task[w]) = {} /\ Become(w, [Idle EXCEPT !.lock = TRUE])
       \/ /\ RemainingWithout(task[w]) # {}
          /\ Become(w, [task[w] EXCEPT !.pc =
                  IF task[w].op = "deleterole" THEN "wearers" ELSE "write"])
    /\ UNCHANGED <<store, started>>

\* Slip: the lock covers the count and not the write.
Count_Releases(w) ==
    /\ task[w].pc = "count"
    /\ \/ RemainingWithout(task[w]) = {} /\ Finish(w)
       \/ /\ RemainingWithout(task[w]) # {}
          /\ Become(w, [task[w] EXCEPT !.lock = FALSE, !.pc =
                  CASE task[w].op = "deleterole" -> "wearers"
                    [] task[w].op = "permissions" -> "get"
                    [] task[w].op = "delete" -> "write"
                    [] OTHER -> "load"])
    /\ UNCHANGED <<store, started>>

Count(w) ==
    /\ task[w].pc = "count"
    /\ \/ RemainingWithout(task[w]) = {} /\ Finish(w)
       \/ /\ RemainingWithout(task[w]) # {}
          /\ Become(w, [task[w] EXCEPT !.pc =
                  CASE task[w].op = "deleterole" -> "wearers"
                    [] task[w].op = "permissions" -> "get"
                    [] task[w].op = "delete" -> "write"
                    [] OTHER -> "load"])
    /\ UNCHANGED <<store, started>>

ReadWearers(w) ==
    /\ task[w].pc = "wearers"
    /\ Become(w, [task[w] EXCEPT !.pc = "write",
                     !.wearers = {u \in accounts: task[w].role \in roles[u]}])
    /\ UNCHANGED <<store, started>>

-----------------------------------------------------------------------------
(* The entity, and the row it is compared with. *)

\* find_by_id and the change; an account that is gone is answered 404.
Load(w) ==
    LET k == task[w] IN
    /\ k.pc = "load"
    /\ \/ k.user \notin accounts /\ Finish(w)
       \/ /\ k.user \in accounts
          /\ Become(w, [k EXCEPT !.pc = "get",
                 !.wants = \/ k.op = "activate"
                           \/ k.op = "roles" /\ k.user \in active,
                 !.new = IF k.op = "roles" THEN k.new ELSE roles[k.user]])
    /\ UNCHANGED <<store, started>>

\* A role the entity carries must have its row; a missing account need not.
Get(w) ==
    LET k == task[w] IN
    /\ k.pc = "get"
    /\ \/ /\ k.op = "permissions" /\ k.role \notin existing
          /\ Finish(w)
       \/ /\ k.op = "permissions" /\ k.role \in existing
          /\ Become(w, [k EXCEPT !.pc = "write", !.was = k.role \in power])
       \/ /\ k.op # "permissions" /\ ~(k.new \subseteq existing)
          /\ Finish(w)
       \/ /\ k.op # "permissions" /\ k.new \subseteq existing
          /\ Become(w, [k EXCEPT !.pc = "write",
                 !.there = k.user \in accounts, !.was = k.user \in active,
                 !.old = IF k.user \in accounts THEN roles[k.user] ELSE {}])
    /\ UNCHANGED <<store, started>>

-----------------------------------------------------------------------------
(* What a request writes, and its commit. *)

Writing(w, op) == task[w].pc = "write" /\ task[w].op = op

WriteDelete(w) ==
    /\ Writing(w, "delete")
    /\ accounts' = accounts \ {task[w].user}
    /\ active' = active \ {task[w].user}
    /\ roles' = [u \in Users |-> IF u = task[w].user THEN {} ELSE roles[u]]
    /\ Finish(w)
    /\ UNCHANGED <<existing, power, started>>

\* The rows to delete must be there, those to insert must not, and a role
\* deleted in between fails the foreign key.
Applies(k) ==
    /\ k.there = (k.user \in accounts)
    /\ k.old \ k.new \subseteq roles[k.user]
    /\ (k.new \ k.old) \cap roles[k.user] = {}
    /\ k.new \ k.old \subseteq existing

\* save: the UPDATE of is_active where it differs, or the INSERT.
WriteUser(w) ==
    LET k == task[w]
        sets == k.wants # k.was \/ ~k.there IN
    /\ \E op \in {"deactivate", "activate", "roles"}: Writing(w, op)
    /\ \/ ~Applies(k) /\ UNCHANGED <<accounts, active, roles>>
       \/ /\ Applies(k)
          /\ accounts' = accounts \cup {k.user}
          /\ active' = IF ~sets THEN active
                       ELSE IF k.wants THEN active \cup {k.user}
                       ELSE active \ {k.user}
          /\ roles' = [roles EXCEPT ![k.user] =
                          (roles[k.user] \ (k.old \ k.new)) \cup (k.new \ k.old)]
    /\ Finish(w)
    /\ UNCHANGED <<existing, power, started>>

WritePermissions(w) ==
    LET k == task[w]
        applies == k.role \in existing /\ k.was = (k.role \in power) IN
    /\ Writing(w, "permissions")
    /\ power' = IF ~applies \/ k.wants = k.was THEN power
                ELSE IF k.wants THEN power \cup {k.role}
                ELSE power \ {k.role}
    /\ Finish(w)
    /\ UNCHANGED <<accounts, active, roles, existing, started>>

\* The association rows go with the role; those who wore it when it was read
\* and are left with nothing get the default role.  A role that is gone is
\* answered 404.
WriteDeleteRole(w) ==
    LET r == task[w].role
        left(u) == roles[u] \ {r} IN
    /\ Writing(w, "deleterole")
    /\ \/ r \notin existing /\ UNCHANGED <<roles, existing, power>>
       \/ /\ r \in existing
          /\ existing' = existing \ {r}
          /\ power' = power \ {r}
          /\ roles' = [u \in Users |->
                          IF u \in task[w].wearers \cap accounts /\ left(u) = {}
                          THEN {Default} ELSE left(u)]
    /\ Finish(w)
    /\ UNCHANGED <<accounts, active, started>>

-----------------------------------------------------------------------------
Start(w) ==
    \/ StartDeactivate(w) \/ StartActivate(w) \/ StartDelete(w)
    \/ StartRoles(w) \/ StartPermissions(w) \/ StartDeleteRole(w)

Read(w) == Lock(w) \/ Count(w) \/ Load(w) \/ Get(w) \/ ReadWearers(w)

Write(w) ==
    \/ WriteDelete(w) \/ WriteUser(w)
    \/ WritePermissions(w) \/ WriteDeleteRole(w)

Step(w) == Read(w) \/ Write(w)

Next == \E w \in Workers: Start(w) \/ Step(w)

Spec == Init /\ [][Next]_vars

\* A thread that serves a request goes on with it; PostgreSQL hands a free
\* advisory lock to one that waits for it.
Fairness == \A w \in Workers: WF_vars(Step(w))
FairSpec == Spec /\ Fairness

-----------------------------------------------------------------------------
(* Properties. *)

\* The state has the shape the tables and the requests give it.
TypeOK ==
    /\ accounts \subseteq Users
    /\ active \subseteq Users
    /\ roles \in [Users -> SUBSET Roles]
    /\ existing \subseteq Roles
    /\ power \subseteq {Admin} \cup Custom
    /\ task \in [Workers -> Task]
    /\ started \in 0..MaxRequests

\* There is always an active account that holds admin:all, however deletions,
\* deactivations, demotions and changes to roles overlap (privilege_guard).
AdministratorRemains == Administrators # {}

\* Every step that leaves somebody out of the administrators is made by the
\* request that holds the lock (lock_administrator_set).
LossesAreSerialised ==
    [][~(Administrators \subseteq Administrators') =>
        \E w \in Workers: task[w].lock /\ task[w].pc = "write"
                          /\ task'[w].pc = "idle"]_vars

\* A deleted account does not come back: a save whose account was deleted
\* since it was read is refused (save, UserNotFoundError).
DeletedStaysDeleted == [][accounts' \subseteq accounts]_vars

\* Every account has a role: update_roles refuses an empty set, and deleting
\* a role puts the accounts it leaves bare on the default role.
NobodyIsBare == \A u \in accounts: roles[u] # {}

\* A request that waits for the lock gets it, and ends.
RequestsEnd == \A w \in Workers: task[w].pc # "idle" ~> task[w].pc = "idle"

=============================================================================
