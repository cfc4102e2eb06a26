------------------------- MODULE AddressNormalising -------------------------
(***************************************************************************)
(* `flask maintenance normalize-emails`: the addresses written before      *)
(* Email lowered them are lowered one transaction at a time, while         *)
(* accounts are registered, saved and deleted beside it and while a second *)
(* operator may run the same command.  An address is a mailbox and the     *)
(* spelling it is stored in; the unique index compares both.               *)
(***************************************************************************)
EXTENDS Integers, FiniteSetsExt

CONSTANTS
    Accounts,   \* identifiers of accounts, never used twice
    Mailboxes,  \* what addresses name, whatever their case
    Runners     \* invocations of the command

VARIABLES
    users,      \* the rows of the users table
    held,       \* an account loaded by a request and about to be saved
    cli,        \* the invocations
    lowered,    \* ghost: lowerings the invocations committed
    putBack     \* ghost: accounts saved with a spelling already lowered

vars == <<users, held, cli, lowered, putBack>>

Spellings == {"lower", "Mixed", "UPPER"}
Address == [mailbox : Mailboxes, spelling : Spellings]
Gone == [mailbox |-> "none", spelling |-> "none"]

normalise(address) == [address EXCEPT !.spelling = "lower"]
Taken(address, but) == \E b \in Accounts \ {but} : users[b] = address

Nothing == [changed |-> 0, refused |-> 0, failed |-> 0, moved |-> 0]
Idle == [pc |-> "idle", rows |-> {}, left |-> {}, counts |-> Nothing, exit |-> "none"]

Init ==
    /\ users \in {u \in [Accounts -> Address \cup {Gone}] :
                     \A a, b \in Accounts : a # b /\ u[a] # Gone => u[a] # u[b]}
    /\ held = {}
    /\ cli = [r \in Runners |-> Idle]
    /\ lowered = 0
    /\ putBack = {}

-----------------------------------------------------------------------------
(* Requests beside the command.                                            *)

\* An address that is typed is lowered before it is looked up and stored.
Register(a, m) ==
    LET address == [mailbox |-> m, spelling |-> "lower"]
    IN  /\ users[a] = Gone /\ a \notin putBack
        /\ \A r \in Runners : \A row \in cli[r].rows : row.id # a
        /\ \A h \in held : h.id # a
        /\ ~Taken(address, a)
        /\ users' = [users EXCEPT ![a] = address]
        /\ UNCHANGED <<held, cli, lowered, putBack>>

Delete(a) ==
    /\ users[a] # Gone
    /\ users' = [users EXCEPT ![a] = Gone]
    /\ UNCHANGED <<held, cli, lowered, putBack>>

\* from_storage: the entity holds the stored spelling.
Load(a) ==
    /\ held = {} /\ users[a] # Gone
    /\ held' = {[id |-> a, email |-> users[a]]}
    /\ UNCHANGED <<users, cli, lowered, putBack>>

\* The model is still the session's own and its address unchanged, or it was
\* collected and read again, and then the held spelling is written back.  An
\* account deleted meanwhile is reported as absent, a clash is refused.
Save(h) ==
    /\ held' = {}
    /\ \/ UNCHANGED <<users, putBack>>
       \/ /\ users[h.id] \notin {Gone, h.email} /\ ~Taken(h.email, h.id)
          /\ users' = [users EXCEPT ![h.id] = h.email]
          /\ putBack' = putBack \cup {h.id}
    /\ UNCHANGED <<cli, lowered>>

-----------------------------------------------------------------------------
(* The command.                                                            *)

clashes(a, present) ==
    \E b \in present \ {a} : normalise(users[b]) = normalise(users[a])

\* One SELECT; the rows that need work, with the collisions among all.
find_addresses_needing_normalising ==
    LET present == {a \in Accounts : users[a] # Gone}
    IN  {[id |-> a, email |-> users[a], clashes |-> clashes(a, present)] :
            a \in {b \in present : users[b] # normalise(users[b])}}

\* The command reads and lists; without --apply, or with nothing to do, or
\* unable to read, it ends there.
Report(r) ==
    /\ cli[r] = Idle
    /\ LET rows == find_addresses_needing_normalising
       IN  \/ cli' = [cli EXCEPT ![r] = [Idle EXCEPT !.pc = "reported", !.rows = rows]]
           \/ cli' = [cli EXCEPT ![r] = [Idle EXCEPT !.pc = "unreadable"]]
           \/ /\ rows # {}
              /\ cli' = [cli EXCEPT ![r] =
                    [Idle EXCEPT !.pc = "apply", !.rows = rows,
                                 !.left = {row \in rows : ~row.clashes}]]
    /\ UNCHANGED <<users, held, lowered, putBack>>

Count(r, row, what) ==
    cli' = [cli EXCEPT ![r].left = @ \ {row}, ![r].counts[what] = @ + 1]

\* UPDATE ... WHERE id = :id AND email = :stored.
Matches(row) == users[row.id] = row.email

Written(row) ==
    /\ Matches(row) /\ ~Taken(normalise(row.email), row.id)
    /\ users' = [users EXCEPT ![row.id] = normalise(row.email)]
    /\ lowered' = lowered + (IF users[row.id] = normalise(row.email) THEN 0 ELSE 1)

\* One row in a transaction of its own: lowered, no longer there, refused by
\* the index, or failed, before the commit or with its answer lost.
normalise_address(r, row) ==
    /\ cli[r].pc = "apply" /\ row \in cli[r].left
    /\ \/ Written(row) /\ Count(r, row, "changed")
       \/ /\ ~Matches(row)
          /\ Count(r, row, "moved") /\ UNCHANGED <<users, lowered>>
       \/ /\ Matches(row) /\ Taken(normalise(row.email), row.id)
          /\ Count(r, row, "refused") /\ UNCHANGED <<users, lowered>>
       \/ Count(r, row, "failed") /\ (Written(row) \/ UNCHANGED <<users, lowered>>)
    /\ UNCHANGED <<held, putBack>>

\* Slip: an address the index refused is not a failure.
ExitCode_Refused(run) ==
    IF run.counts.failed > 0 \/ run.left # {} THEN "1" ELSE "0"

ExitCode(run) ==
    IF run.counts.failed > 0 \/ run.counts.refused > 0 \/ run.left # {} THEN "1" ELSE "0"

\* The counts are printed, after the last row or after Ctrl-C, which may also
\* arrive between the commit of a row and its count.
Finish(r) ==
    /\ cli[r].pc = "apply"
    /\ cli' = [cli EXCEPT ![r].pc = "done", ![r].exit = ExitCode(cli[r])]
    /\ \/ UNCHANGED <<users, lowered>>
       \/ \E row \in cli[r].left : Written(row)
    /\ UNCHANGED <<held, putBack>>

Next ==
    \/ \E a \in Accounts :
          Delete(a) \/ Load(a) \/ (\E m \in Mailboxes : Register(a, m))
    \/ \E h \in held : Save(h)
    \/ \E r \in Runners :
          \/ Report(r) \/ Finish(r)
          \/ \E row \in cli[r].left : normalise_address(r, row)

Spec == Init /\ [][Next]_vars

-----------------------------------------------------------------------------
(* Properties.                                                             *)

TypeOK ==
    /\ users \in [Accounts -> Address \cup {Gone}]
    /\ held \subseteq [id : Accounts, email : Address]
    /\ \A r \in Runners :
          /\ cli[r].pc \in {"idle", "reported", "unreadable", "apply", "done"}
          /\ cli[r].left \subseteq cli[r].rows
          /\ cli[r].exit \in {"none", "0", "1"}
    /\ putBack \subseteq Accounts

\* normalise_addresses leaves clashing accounts to their owners: an account is
\* lowered only while no other account is of the same mailbox, although the
\* clashes were counted before the first write and accounts come and go.
SoleAccountLowered ==
    [][ \A a \in Accounts :
          (users[a] # Gone /\ users[a] # normalise(users[a])
             /\ users'[a] = normalise(users[a]))
          => \A b \in Accounts \ {a} :
                users[b] = Gone \/ users[b].mailbox # users[a].mailbox ]_vars

\* normalize_emails' exit code: 0 after --apply means that every address the
\* run listed as fixable is in lower case or gone, unless a request that held
\* the old spelling saved the account over it.
ExitZeroMeans ==
    \A r \in Runners : cli[r].exit = "0" =>
        \A row \in cli[r].rows :
            \/ row.clashes
            \/ users[row.id] \in {Gone, normalise(row.email)}
            \/ row.id \in putBack

\* The audit event counts the addresses changed: however many runs overlap,
\* no lowering is reported twice and none is reported that was not made.
CountedOnce == MapThenSumSet(LAMBDA r : cli[r].counts.changed, Runners) <= lowered

=============================================================================
