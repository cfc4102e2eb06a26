---------------------------- MODULE MCOperations ----------------------------
(***************************************************************************)
(* Instances for TLC of the modules about running the service: where its   *)
(* settings come from, the roles that are loaded into the database, the    *)
(* rewriting of stored e-mail addresses, the rules a URL is admitted by,   *)
(* and the roll-up of visits and security events.  The modules share no    *)
(* state: a behaviour runs one of them and the others stay where they      *)
(* start.  RollUps is extended, the others are instantiated.               *)
(***************************************************************************)
EXTENDS RollUps, Sequences, TLC

CONSTANTS Starting, Operators, Accounts, Mailboxes

VARIABLES
  part,      \* the module that runs
  layer, proc, runs,
  tables, perms, stored, made, pass, trail, written, edits,
  users, held, cli, lowered, putBack,
  links, said, open, asks

-----------------------------------------------------------------------------
(* The URLs submitted: every spelling of a number in one and two parts,    *)
(* one odd part in longer addresses, and every pair of departures from an  *)
(* ordinary URL.  An octet has ten values, and 0 and 1 are inside.         *)

Num(prefix, digits) == [word |-> "", prefix |-> prefix, digits |-> digits]
Word(w) == [word |-> w, prefix |-> "", digits |-> <<>>]
Plain ==
  [scheme |-> "http", user |-> FALSE, bracket |-> "none", wide |-> FALSE,
   host |-> <<Word("name"), Word("name")>>, six |-> [global |-> TRUE, carries |-> "none"],
   port |-> "none", path |-> "/", long |-> FALSE, control |-> FALSE, splits |-> TRUE]
One == Num("", <<1>>)
Figures ==
  {Num("", ds) : ds \in {<<1>>, <<8>>, <<1, 1>>}}
    \cup {Num("0", ds) : ds \in {<<>>, <<1>>, <<1, 1>>, <<9>>}}
    \cup {Num("0x", ds) : ds \in {<<>>, <<9>>, <<1, 1>>}}
NumberHosts ==
  [1..1 -> Figures] \cup [1..2 -> Figures]
    \cup {[i \in 1..n |-> IF i = k THEN p ELSE Num("", <<8>>)] :
            n \in 3..5, k \in 1..5, p \in Figures}
NameHosts ==
  {<<Word("name"), Word(w)>> : w \in {"name", "internal", "un_der", "xn"}}
    \cup {<<Word("localhost")>>, <<Word("name")>>, <<Word("name"), One>>,
          <<One, Word("name")>>, <<>>}
    \cup {<<Word("name"), Word("name")>> \o t : t \in {<<Word("")>>, <<Word(""), Word("")>>}}
WideHosts ==
  {<<Word("name"), Word(w)>> : w \in {"name", "internal", "national", "unmappable"}}
    \cup {<<One, One>>, <<Word("name"), Word("national"), Word("")>>}
Departures ==
  {[host |-> h] : h \in NameHosts} \cup {[wide |-> TRUE, host |-> h] : h \in WideHosts}
    \cup {[scheme |-> s] : s \in {"https", "ftp"}}
    \cup {[user |-> TRUE], [bracket |-> "future"]}
    \cup {[bracket |-> "address", six |-> x] :
            x \in [global : BOOLEAN, carries : {"none", "internal", "public"}]}
    \cup {[port |-> p] : p \in {"0", "80", "443", "8080", "unreadable"}}
    \cup {[path |-> p] : p \in {"", "/p"}}
    \cup {[long |-> TRUE], [control |-> TRUE], [splits |-> FALSE]}
MCUrls ==
  {[Plain EXCEPT !.host = h] : h \in NumberHosts}
    \cup {e @@ d @@ Plain : e \in Departures, d \in Departures}

-----------------------------------------------------------------------------

C == INSTANCE Configuration WITH MaxOdd <- 2, MaxRuns <- 2, FileNames <- FALSE

S == INSTANCE RoleSeeding WITH MaxEdits <- 2

A == INSTANCE AddressNormalising

U == INSTANCE UrlRules WITH Byte <- 10, Inside <- {0, 1}, Urls <- MCUrls, MaxAsks <- 1

configuration == <<layer, proc, runs>>
seeding == <<tables, perms, stored, made, pass, trail, written, edits>>
normalising == <<users, held, cli, lowered, putBack>>
rules == <<links, said, open, asks>>
rollups == <<today, linked, raw, folded, writing, run, happened, late>>

allVars == <<part, configuration, seeding, normalising, rules, rollups>>

InitOf ==
  /\ part \in {"configuration", "seeding", "normalising", "rules", "rollups"}
  /\ IF part = "configuration" THEN C!Init
     ELSE layer = [l \in C!Layers |-> C!Blank] /\ proc = C!Idle /\ runs = {}
  /\ tables \in (IF part = "seeding" THEN BOOLEAN ELSE {FALSE}) /\ S!Init
  /\ users \in (IF part = "normalising" THEN [Accounts -> A!Address \cup {A!Gone}]
                ELSE {[a \in Accounts |-> A!Gone]}) /\ A!Init
  /\ IF part = "rules" THEN U!Init
     ELSE links = {} /\ said = <<>> /\ open = FALSE /\ asks = 0
  /\ Init

StepOf ==
  /\ UNCHANGED part
  /\ \/ part = "configuration" /\ C!Next /\ UNCHANGED <<seeding, normalising, rules, rollups>>
     \/ part = "seeding" /\ S!Next /\ UNCHANGED <<configuration, normalising, rules, rollups>>
     \/ part = "normalising" /\ A!Next /\ UNCHANGED <<configuration, seeding, rules, rollups>>
     \/ part = "rules" /\ U!Next /\ UNCHANGED <<configuration, seeding, normalising, rollups>>
     \/ part = "rollups" /\ Next /\ UNCHANGED <<configuration, seeding, normalising, rules>>

SpecOf == InitOf /\ [][StepOf]_allVars

-----------------------------------------------------------------------------

\* RoleSeeding: what a pass says it did is what it did.
SaysWhatHappened == part = "seeding" => S!SaysWhatHappened

\* AddressNormalising: exit code 0 means that nothing is left to lower.
ExitZeroMeans == part = "normalising" => A!ExitZeroMeans

\* UrlRules: a stored URL leads where the submitted one led.
LeadsWhereAsked == part = "rules" => U!LeadsWhereAsked

\* Configuration: whatever two processes started from the same settings, web,
\* worker or migration, open or migrate is one database.
OneDatabase == part = "configuration" => C!OneDatabase

-----------------------------------------------------------------------------
(* What the modules state besides, for OperationsMore.cfg. *)

\* The type invariants of the instances.
TypesOK ==
  /\ part = "seeding" => S!TypeOK
  /\ part = "normalising" => A!TypeOK
  /\ part = "rules" => U!TypeOK
  /\ part = "configuration" => C!TypeOK

\* RoleSeeding: the audit trail names what operators committed.
TrailIsTrue == part = "seeding" => S!TrailIsTrue

\* RoleSeeding: what an administrator edited survives the next start.
EditsSurvive == S!EditsSurvive

\* RoleSeeding: a role appears with all of its grants or not at all.
RolesArriveWhole == S!RolesArriveWhole

\* AddressNormalising: an address is lowered only where nobody else has it.
SoleAccountLowered == A!SoleAccountLowered

\* AddressNormalising: the count reported is the rows this run changed.
CountedOnce == part = "normalising" => A!CountedOnce

\* UrlRules: two links never lead to one destination.
OneLinkPerDestination == part = "rules" => U!OneLinkPerDestination

\* UrlRules: no link is stored to an address inside the network.
LeadsOutside == U!LeadsOutside

\* UrlRules: what is stored can be read back.
ReadsBack == part = "rules" => U!ReadsBack

\* Configuration: an exported value outranks .env.<profile>, and that .env.
LeftmostWins == part = "configuration" => C!LeftmostWins

\* Configuration: a migration changes only a database somebody named.
MigratesWhatWasNamed == part = "configuration" => C!MigratesWhatWasNamed

\* Configuration: a process that came up has settings that fit each other.
StartsSound == part = "configuration" => C!StartsSound

\* Configuration: a process works under one profile.
ProfileChosenOnce == part = "configuration" => C!ProfileChosenOnce
=============================================================================
