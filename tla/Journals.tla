------------------------------ MODULE Journals ------------------------------
(***************************************************************************)
(* One journal on disk: the workers append to it through watched handlers, *)
(* logrotate renames it away and packs the generation before, and a reader *)
(* walks it backwards, live file first, archives after.  Nothing locks:    *)
(* each file a reader opens is one step, and a write is a check of the     *)
(* name followed by the append.                                            *)
(***************************************************************************)
EXTENDS Integers, FiniteSets, Sequences, SequencesExt

CONSTANTS Writers,
          Limits,         \* how many lines a read may ask for
          SCAN_LIMIT,     \* most lines a filtered read looks at
          Kept,           \* logrotate's "rotate": archives kept
          None,
          MaxRecords, MaxRotations, MaxReads   \* bounds

VARIABLES
  disk,      \* inode -> the records in it
  name,      \* generation -> inode; 0 is the live file, 1 the newest archive
  packed,    \* inodes replaced by their compressed copy
  handle,    \* writer -> the inode its handler holds open
  at,        \* writer -> whether an emit has checked the name already
  rotating,  \* where logrotate stands
  lost,      \* records appended to an inode that no name leads to
  reader,    \* the read in progress
  reads      \* reads so far

vars == <<disk, name, packed, handle, at, rotating, lost, reader, reads>>

Inodes == 0..MaxRotations
Generations == 0..Kept
Count == FoldFunction(LAMBDA s, n : n + Len(s), 0, disk) + Cardinality(lost)

NoRead == [pc |-> "idle", wanted |-> 0, archives |-> FALSE, terms |-> FALSE,
           deep |-> FALSE, todo |-> <<>>, behind |-> FALSE, opened |-> FALSE, scanned |-> 0,
           collected |-> <<>>, start |-> FALSE, seen |-> <<>>, all |-> 0, quiet |-> TRUE]

Init ==
  /\ disk = [i \in Inodes |-> <<>>]
  /\ name = [g \in Generations |-> IF g = 0 THEN 0 ELSE None]
  /\ packed = {} /\ handle = [w \in Writers |-> 0] /\ at = [w \in Writers |-> "idle"]
  /\ rotating = "no" /\ lost = {} /\ reader = NoRead /\ reads = 0

Fresh == CHOOSE i \in Inodes : i \notin Range(name) /\ disk[i] = <<>> /\ i \notin Range(handle)
HasFresh == \E i \in Inodes : i \notin Range(name) /\ disk[i] = <<>> /\ i \notin Range(handle)

Disturb == reader' = [reader EXCEPT !.quiet = FALSE]

-----------------------------------------------------------------------------
(* WatchedFileHandler.emit, in every worker *)

\* reopenIfNeeded: another inode under the name, or none, is opened afresh.
Reopened(held) ==
  IF name[0] = held THEN held ELSE IF name[0] = None THEN Fresh ELSE name[0]

Check(w) ==
  /\ at[w] = "idle" /\ Count < MaxRecords
  /\ name[0] # None \/ HasFresh
  /\ LET i == Reopened(handle[w])
     IN  /\ handle' = [handle EXCEPT ![w] = i]
         /\ name' = IF name[0] = None /\ i # handle[w] THEN [name EXCEPT ![0] = i] ELSE name
  /\ at' = [at EXCEPT ![w] = "checked"]
  /\ UNCHANGED <<disk, packed, rotating, lost, reader, reads>>

\* A record is one the service wrote, one that answers a search, or the
\* chain's own health probe.
Append1(w, kind) ==
  LET i == handle[w] rec == [id |-> Count, kind |-> kind] IN
  /\ at[w] = "checked" /\ Count < MaxRecords
  /\ at' = [at EXCEPT ![w] = "idle"]
  /\ lost' = IF i \in packed THEN lost \cup {rec} ELSE lost
  /\ disk' = IF i \in packed THEN disk ELSE [disk EXCEPT ![i] = Append(@, rec)]
  /\ IF i = name[0] THEN UNCHANGED reader ELSE Disturb
  /\ UNCHANGED <<name, packed, handle, rotating, reads>>

-----------------------------------------------------------------------------
(* logrotate: notifempty, delaycompress, rename, create.  An hour at least *)
(* passes between two rotations, and no append takes that long.            *)

\* delaycompress: the archive of the rotation before.
Compressed == {name[1]} \ {None}

Shift ==
  /\ rotating = "no" /\ name[0] # None /\ disk[name[0]] # <<>> /\ HasFresh
  /\ \A w \in Writers : at[w] = "idle" \/ handle[w] = name[0]
  /\ name' = [g \in Generations |-> IF g = 0 THEN name[0] ELSE IF g = 1 THEN None ELSE name[g - 1]]
  /\ packed' = packed \cup Compressed
  /\ rotating' = "shifted" /\ Disturb
  /\ UNCHANGED <<disk, handle, at, lost, reads>>

Rename ==
  /\ rotating = "shifted"
  /\ name' = [name EXCEPT ![0] = None, ![1] = name[0]]
  /\ rotating' = "renamed" /\ Disturb
  /\ UNCHANGED <<disk, packed, handle, at, lost, reads>>

Create ==
  /\ rotating = "renamed"
  /\ name' = IF name[0] = None THEN [name EXCEPT ![0] = Fresh] ELSE name
  /\ rotating' = "no" /\ Disturb
  /\ UNCHANGED <<disk, packed, handle, at, lost, reads>>

-----------------------------------------------------------------------------
(* FileJournalReader.tail, under ReadJournalUseCase.execute *)

Latest(s, n) == SubSeq(s, Len(s) - (IF n < Len(s) THEN n ELSE Len(s)) + 1, Len(s))

\* _archives_of: the archives there are, newest first.
ArchivesOf == SetToSortSeq({g \in Generations \ {0} : name[g] # None}, <)

\* JournalFilter.matches: the probes are dropped from a read that did not
\* ask for them, and a search keeps what answers it.
Matches(rec, terms) == rec.kind # "probe" /\ (terms => rec.kind = "hit")

\* Slip: a plain tail never looks past the page it was asked for.
Budget_Page(r) == IF r.terms THEN SCAN_LIMIT ELSE r.wanted

Budget(r) == IF r.deep \/ r.terms THEN SCAN_LIMIT ELSE r.wanted

Everything(gens) == FoldRight(LAMBDA g, s : s \o disk[name[g]],
                              SelectSeq(gens, LAMBDA g : name[g] # None), <<>>)

\* What a _tail starts from: the files it will walk, and the archives it
\* leaves behind it.
Started(r, deep) ==
  LET walk == <<0>> \o (IF r.archives THEN ArchivesOf ELSE <<>>) IN
  [r EXCEPT !.pc = "scan", !.deep = deep, !.todo = walk,
            !.behind = ArchivesOf # <<>>, !.opened = FALSE, !.scanned = 0, !.collected = <<>>,
            !.start = FALSE, !.quiet = (rotating = "no")]

\* _require_may_read refuses, or the walk begins.
Execute(wanted, archives, terms) ==
  /\ reader.pc = "idle" /\ reads < MaxReads /\ reads' = reads + 1
  /\ \/ reader' = Started([NoRead EXCEPT !.wanted = wanted, !.archives = archives,
                                         !.terms = terms], FALSE)
     \/ reader' = [NoRead EXCEPT !.pc = "refused"]
  /\ UNCHANGED <<disk, name, packed, handle, at, rotating, lost>>

\* The end of the loop: what may be said about the start of the journal.
AtTheStart(r) ==
  IF ~r.opened /\ ~r.behind THEN TRUE ELSE r.start /\ (r.archives \/ ~r.behind)

\* tail: a plain page the probes emptied is read again, deep.
Finish(r) ==
  IF Len(r.collected) < r.wanted /\ ~r.start /\ ~r.terms /\ ~r.deep
  THEN Started(r, TRUE)
  ELSE [r EXCEPT !.pc = "done", !.collected = Latest(@, r.wanted)]

Joined(found, collected) == found \o collected

\* One file: _lines_backwards, the parse and the filter, and the test that
\* stops the walk.  seen and all note what the files held when the live one
\* was read.
ReadFile(r) ==
  LET g == Head(r.todo)
      room == Budget(r) - r.scanned
      lines == IF name[g] = None THEN <<>> ELSE Latest(disk[name[g]], room)
      found == SelectSeq(lines, LAMBDA rec : Matches(rec, r.terms))
      was == IF g # 0 THEN r
             ELSE [r EXCEPT !.seen = Everything(r.todo),
                            !.all = Len(Everything(<<0>> \o ArchivesOf))]
      next == [was EXCEPT !.todo = Tail(@), !.opened = TRUE, !.scanned = @ + Len(lines),
                        !.collected = Joined(found, @), !.start = TRUE]
  IN  IF name[g] = None THEN [r EXCEPT !.todo = Tail(@)]
      ELSE IF Len(next.collected) >= r.wanted \/ next.scanned >= Budget(r)
           THEN Finish([next EXCEPT !.start = FALSE, !.todo = <<>>])
           ELSE next

Walk ==
  /\ reader.pc = "scan"
  /\ reader' = IF reader.todo = <<>>
               THEN Finish([reader EXCEPT !.start = AtTheStart(reader)])
               ELSE ReadFile(reader)
  /\ UNCHANGED <<disk, name, packed, handle, at, rotating, lost, reads>>

\* The file is renamed between exists() and open().
OpenFails ==
  /\ reader.pc = "scan" /\ reader.todo # <<>> /\ ~reader.quiet
  /\ name[Head(reader.todo)] = None
  /\ reader' = [NoRead EXCEPT !.pc = "failed"]
  /\ UNCHANGED <<disk, name, packed, handle, at, rotating, lost, reads>>

\* The page goes out; what _record_the_read then writes is one more record
\* of the audit journal.
Answer ==
  /\ reader.pc \in {"done", "failed", "refused"}
  /\ reader' = NoRead
  /\ UNCHANGED <<disk, name, packed, handle, at, rotating, lost, reads>>

-----------------------------------------------------------------------------
Next ==
  \/ \E w \in Writers : Check(w) \/ \E k \in {"line", "hit", "probe"} : Append1(w, k)
  \/ Shift \/ Rename \/ Create
  \/ \E n \in Limits, archives, terms \in BOOLEAN : Execute(n, archives, terms)
  \/ Walk \/ OpenFails \/ Answer

Spec == Init /\ [][Next]_vars

-----------------------------------------------------------------------------
(* Properties *)

\* Type invariant.
TypeOK ==
  /\ name \in [Generations -> Inodes \cup {None}]
  /\ handle \in [Writers -> Inodes] /\ at \in [Writers -> {"idle", "checked"}]
  /\ rotating \in {"no", "shifted", "renamed"}
  /\ reader.pc \in {"idle", "scan", "done", "failed", "refused"}
  /\ reads \in 0..MaxReads /\ packed \subseteq Inodes

\* No record is appended to a file after its packed copy has replaced it:
\* every worker follows the rotation before its next write
\* (WatchedFileHandler in _file_handler_class, delaycompress).
NothingLost == lost = {}

\* A read no rotation overlapped answers with exactly the last lines, in the
\* order of the files, that match within the window it owes: neither the
\* probes nor the file boundaries shorten or reorder the page.  It says that
\* it reached the start only if it looked at every line there was, archives
\* nobody asked for included
\* (FileJournalReader.tail, _lines_backwards, JournalPage.reached_start).
PageIsTheTail ==
  (reader.pc = "done" /\ reader.quiet) =>
    /\ reader.collected =
         Latest(SelectSeq(Latest(reader.seen, SCAN_LIMIT),
                          LAMBDA rec : Matches(rec, reader.terms)),
                reader.wanted)
    /\ reader.start => reader.scanned = reader.all
=============================================================================
