---------------------------- MODULE RoleSeeding ----------------------------
(***************************************************************************)
(* Where the roles come from: every web worker seeds the base roles when   *)
(* it starts (AUTO_SEED_ROLES), an operator loads files of roles, and      *)
(* administrators create, change and delete roles meanwhile.  A pass of    *)
(* the loader is one transaction at READ COMMITTED: it looks up the        *)
(* permissions, flushes the missing ones, looks up role after role, and    *)
(* writes the roles with its commit.  A permission another pass has        *)
(* flushed and not committed makes the flush wait on the unique index.     *)
(***************************************************************************)
EXTENDS Naturals, Sequences, FiniteSets

CONSTANTS Starting,      \* web workers that start
          Operators,     \* shells with flask db load-custom-roles
          MaxEdits       \* bound: edits through the admin API

VARIABLES
  tables,    \* whether the schema has been built
  perms,     \* permissions stored
  stored,    \* roles stored: name -> [id, system, grants]
  made,      \* the latest id of a role; a row made again has a new one
  pass,      \* per process: the pass of the loader it makes
  trail,     \* audit records of the operators
  written,   \* what passes have committed: <<role, grants>>
  edits      \* edits made so far

vars == <<tables, perms, stored, made, pass, trail, written, edits>>

\* A file: the permissions it defines, the roles in its order, what they
\* grant, which it calls system roles (the others it says nothing about),
\* and whether its names are acceptable.
BaseFile == [perms |-> {"a", "b"}, roles |-> <<"admin", "user">>,
             grants |-> [admin |-> {"a", "b"}, user |-> {"b"}],
             system |-> {"admin", "user"}, valid |-> TRUE]
CustomFiles ==
  { [perms |-> {"c"}, roles |-> <<"user", "extra">>,
     grants |-> [user |-> {"b", "c"}, extra |-> {"c"}], system |-> {"user"}, valid |-> TRUE],
    [perms |-> {}, roles |-> <<"extra">>,
     grants |-> [extra |-> {"b", "unheard"}], system |-> {}, valid |-> TRUE],
    [perms |-> {"c"}, roles |-> <<"extra">>,
     grants |-> [extra |-> {"c"}], system |-> {}, valid |-> FALSE] }
Names == {"admin", "user", "extra"}
Permissions == {"a", "b", "c", "unheard"}
BaseRoles == BaseFile.system

Processes == Starting \cup Operators
NoPass == [pc |-> "idle", file |-> BaseFile, update |-> FALSE, flushed |-> {}, add |-> {},
           next |-> 1, write |-> <<>>, said |-> "nothing"]

\* A database from before: a role edited, and one made again through the API.
Former == [admin |-> [id |-> 1, system |-> TRUE, grants |-> {"b"}],
           user |-> [id |-> 1, system |-> FALSE, grants |-> {}]]

Init ==
  /\ \/ tables \in BOOLEAN /\ perms = {} /\ stored = <<>> /\ made = 0
     \/ tables = TRUE /\ perms = BaseFile.perms /\ stored = Former /\ made = 1
  /\ pass = [w \in Processes |-> NoPass]
  /\ trail = {} /\ written = {} /\ edits = 0

Become(w, p) == pass' = [pass EXCEPT ![w] = p]
End(w, said) == Become(w, [NoPass EXCEPT !.pc = "ended", !.said = said])
Rest == <<tables, perms, stored, made, trail, written, edits>>

-----------------------------------------------------------------------------
(* Beginning *)

\* _seed_base_roles_if_ready: a schema nobody has built is not an error.
SeedIfReady(w) ==
  /\ w \in Starting /\ pass[w].pc = "idle"
  /\ IF tables THEN Become(w, [NoPass EXCEPT !.pc = "permissions"])
               ELSE End(w, "skipped")
  /\ UNCHANGED Rest

\* A name the file repeats is refused before anything is looked up; a name no
\* route could address fails the pass as well.
Acceptable(f) == f.valid

\* load_custom_roles_from_cfg
LoadCustom(w) ==
  /\ w \in Operators /\ pass[w].pc = "idle" /\ tables
  /\ \E f \in CustomFiles, update \in BOOLEAN :
       IF Acceptable(f)
       THEN Become(w, [NoPass EXCEPT !.pc = "permissions", !.file = f, !.update = update])
       ELSE End(w, "failed")
  /\ UNCHANGED Rest

-----------------------------------------------------------------------------
(* The permissions *)

\* _upsert_permission for each.  Reading them one at a time adds nothing: a
\* permission is never deleted, and one that appears in between makes the
\* flush clash either way.
UpsertPermissions(w) ==
  /\ pass[w].pc = "permissions"
  /\ Become(w, [pass[w] EXCEPT !.pc = "flush", !.add = pass[w].file.perms \ perms])
  /\ UNCHANGED Rest

Flush(w) ==
  LET p == pass[w] IN
  /\ p.pc = "flush"
  /\ \A v \in Processes \ {w} : pass[v].flushed \cap p.add = {}
  /\ IF p.add \cap perms = {}
     THEN Become(w, [p EXCEPT !.pc = "roles", !.flushed = p.add, !.add = {}])
     ELSE Become(w, [p EXCEPT !.pc = "clash", !.add = {}])
  /\ UNCHANGED Rest

-----------------------------------------------------------------------------
(* The roles *)

\* refuse_unknown_permissions
Unknown(asked, found) == asked \ found

Regrants(p, existed) == ~existed \/ p.update

\* Slip: nothing of an existing role is touched.
Reprotects_Never(p, n, role) == FALSE

\* An existing role is left alone, but for the flag of a system role.
Reprotects(p, n, role) == n \in p.file.system /\ ~role.system

\* What a pass is going to write for role n, as it reads it now.
UpsertRole(w) ==
  LET p == pass[w]
      n == p.file.roles[p.next]
      existed == n \in DOMAIN stored
      found == p.file.grants[n] \cap (perms \cup p.flushed)
      row == IF existed THEN stored[n] ELSE [id |-> 0, system |-> FALSE, grants |-> {}]
      change == [name |-> n, id |-> row.id, before |-> row.grants,
                 after |-> IF Regrants(p, existed) THEN found ELSE row.grants,
                 system |-> row.system
                            \/ IF existed /\ ~p.update THEN Reprotects(p, n, row)
                               ELSE n \in p.file.system,
                 was |-> row.system]
  IN  /\ p.pc = "roles" /\ p.next <= Len(p.file.roles)
      /\ IF Regrants(p, existed) /\ Unknown(p.file.grants[n], found) # {}
         THEN End(w, "failed")
         ELSE Become(w, [p EXCEPT !.next = @ + 1, !.write = Append(@, change)])
      /\ UNCHANGED Rest

\* The difference a change makes, as inserts and deletes of the rows it saw.
Applies(c) ==
  IF c.id = 0 THEN c.name \notin DOMAIN stored
  ELSE /\ c.name \in DOMAIN stored /\ stored[c.name].id = c.id
       /\ (c.after \ c.before) \cap stored[c.name].grants = {}
       /\ (c.before \ c.after) \subseteq stored[c.name].grants
Stale(c) == c.id # 0 /\ (c.name \notin DOMAIN stored \/ stored[c.name].id # c.id)

Applied(c) ==
  IF c.id = 0 THEN [id |-> made + 1, system |-> c.system, grants |-> c.after]
  ELSE [id |-> c.id, system |-> IF c.system # c.was THEN c.system ELSE stored[c.name].system,
        grants |-> (stored[c.name].grants \ (c.before \ c.after)) \cup (c.after \ c.before)]

Changes(p) == {p.write[i] : i \in DOMAIN p.write}
\* Changes that reach the database: a role left alone is not written.
Dirty(p) == {c \in Changes(p) : c.id = 0 \/ c.before # c.after \/ c.system # c.was}

\* The last flush and the commit.  A new name that is taken, or an
\* association row that is there already, clashes; a row that is gone fails.
Commit(w) ==
  LET p == pass[w] D == Dirty(p) IN
  /\ p.pc = "roles" /\ p.next > Len(p.file.roles)
  /\ \/ /\ \A c \in D : Applies(c)
        /\ perms' = perms \cup p.flushed
        /\ stored' = [n \in DOMAIN stored \cup {c.name : c \in D} |->
                        IF \E c \in D : c.name = n
                        THEN Applied(CHOOSE c \in D : c.name = n) ELSE stored[n]]
        /\ made' = made + 1
        /\ written' = written \cup {<<c.name, c.after>> : c \in D}
        /\ Become(w, [p EXCEPT !.pc = IF w \in Starting THEN "ended" ELSE "audit",
                               !.said = "done", !.flushed = {}])
        /\ UNCHANGED <<tables, trail, edits>>
     \/ /\ \E c \in D : ~Applies(c)
        /\ IF \E c \in D : Stale(c) THEN End(w, "failed")
                                    ELSE Become(w, [p EXCEPT !.pc = "clash", !.flushed = {}])
        /\ UNCHANGED Rest

\* _roles_are_present, asked in a session of its own.
AfterClash == IF stored # <<>> THEN "another" ELSE "empty"

Clash(w) ==
  /\ pass[w].pc = "clash"
  /\ End(w, IF w \in Starting THEN AfterClash ELSE "failed")
  /\ UNCHANGED Rest

\* What the operator's command records once the commit is through.
Audit(w) ==
  LET p == pass[w]
      told == {c \in Changes(p) : c.id = 0 \/ c.before # c.after}
  IN  /\ p.pc = "audit"
      /\ trail' = trail \cup {<<c.name, c.after>> : c \in told}
      /\ End(w, "done")
      /\ UNCHANGED <<tables, perms, stored, made, written, edits>>

\* The process is killed: its transaction goes with the connection.
Crash(w) ==
  /\ pass[w].pc \notin {"idle", "ended"} /\ End(w, "killed") /\ UNCHANGED Rest

-----------------------------------------------------------------------------
(* Others *)

\* flask alembic upgrade head, or flask db init
BuildSchema == ~tables /\ tables' = TRUE
               /\ UNCHANGED <<perms, stored, made, pass, trail, written, edits>>

Edit == edits < MaxEdits /\ edits' = edits + 1 /\ UNCHANGED <<tables, perms, pass, trail, written>>

\* resolve_permissions: a name the table does not carry is refused.
Resolves(grants) == grants \subseteq perms

\* The repository's save and delete.
Saved(n, row) == [m \in DOMAIN stored \cup {n} |-> IF m = n THEN row ELSE stored[m]]
Removed(n) == [m \in DOMAIN stored \ {n} |-> stored[m]]

\* An administrator holds a role already, so the table is not empty.
CreateRole(n, grants) ==
  /\ n \notin DOMAIN stored /\ stored # <<>> /\ Resolves(grants)
  /\ stored' = Saved(n, [id |-> made + 1, system |-> FALSE, grants |-> grants])
  /\ made' = made + 1 /\ Edit

\* Role.ensure_may_be_changed
MayBeChanged(n) == n \in DOMAIN stored /\ ~stored[n].system

UpdateRolePermissions(n, grants) ==
  /\ MayBeChanged(n) /\ Resolves(grants)
  /\ stored' = Saved(n, [stored[n] EXCEPT !.grants = grants]) /\ UNCHANGED made /\ Edit

DeleteRole(n) ==
  /\ MayBeChanged(n)
  /\ stored' = Removed(n) /\ UNCHANGED made /\ Edit

Next ==
  \/ \E w \in Processes : \/ SeedIfReady(w) \/ LoadCustom(w) \/ UpsertPermissions(w) \/ Flush(w)
                          \/ UpsertRole(w) \/ Commit(w) \/ Clash(w) \/ Audit(w) \/ Crash(w)
  \/ BuildSchema
  \/ \E n \in Names : DeleteRole(n)
  \/ \E n \in Names, grants \in SUBSET {"b", "c"} :
       CreateRole(n, grants) \/ UpdateRolePermissions(n, grants)

Spec == Init /\ [][Next]_vars

-----------------------------------------------------------------------------
(* Properties *)

\* Type invariant.
TypeOK ==
  /\ tables \in BOOLEAN /\ perms \subseteq Permissions /\ made \in Nat /\ edits \in 0..MaxEdits
  /\ DOMAIN stored \subseteq Names
  /\ \A n \in DOMAIN stored :
       stored[n].id \in 1..made /\ stored[n].system \in BOOLEAN /\ stored[n].grants \subseteq perms
  /\ \A w \in Processes : pass[w].flushed \cap perms = {}

\* A worker that seeded the roles leaves every base role stored and a system
\* role, for good; and when a worker says another process did, that is so,
\* unless administrators were editing roles at the same time
\* (_seed_base_roles_if_ready, _roles_are_present).
SaysWhatHappened ==
  \A w \in Starting :
    pass[w].said = "done" \/ (pass[w].said = "another" /\ edits = 0) =>
    \A n \in BaseRoles : n \in DOMAIN stored /\ stored[n].system

\* Seeding at a start never takes back what an administrator or an operator
\* has granted to a role that exists (_upsert_role).
EditsSurvive ==
  [][(\E w \in Starting : Commit(w)) =>
       \A n \in DOMAIN stored : n \in DOMAIN stored' /\ stored'[n].grants = stored[n].grants]_vars

\* A role comes into being with every permission its file names, or its
\* whole pass is refused (load_from_yaml flushes the permissions first).
RolesArriveWhole ==
  [][\A w \in Processes : Commit(w) =>
       \A n \in DOMAIN stored' \ DOMAIN stored : stored'[n].grants = pass[w].file.grants[n]]_vars

\* The trail tells of no role whose pass did not commit
\* (load_custom_roles_from_cfg records after the transaction).
TrailIsTrue == trail \subseteq written
=============================================================================
