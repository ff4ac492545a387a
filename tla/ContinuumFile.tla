---------------------------- MODULE ContinuumFile ----------------------------
(***************************************************************************)
(* The continuum output of one Recorder (src/src/ContinuumFits.cpp): the   *)
(* file continuum_worker creates when it starts and the rows it adds, one  *)
(* per complete integration, over crashes and restarts of the process.     *)
(*                                                                         *)
(* CFITSIO is modelled by what ContinuumFits.cpp relies on: a call made    *)
(* with a nonzero m_status does nothing, a column can only be written      *)
(* while the table is the current HDU, and what was written shows in the   *)
(* file from the next fits_flush_file on.                                  *)
(***************************************************************************)
EXTENDS Integers, Sequences

CONSTANTS Faults,      \* file operations may fail
          MaxRows,     \* bound: integrations completed
          MaxCrashes,  \* bound: times the process dies
          NoFile

\* A row: the integration it was written for, and whether all columns were.
Row == [nth : Nat, whole : BOOLEAN]

ASSUME FileAssumption ==
  /\ Faults \in BOOLEAN
  /\ MaxRows \in Nat /\ MaxCrashes \in Nat
  /\ NoFile \notin Seq(Row)

VARIABLES worker,      \* continuum_worker: "starting", "running", "returned"
          row,         \* m_row
          hdu,         \* the current HDU: "primary" or "table"
          table,       \* rows CFITSIO has been given
          disk,        \* NoFile or the rows a reader would find
          completed,   \* history: integrations handed to write()
          accepted,    \* history: of those, for which write() returned true
          origin,      \* history: integrations completed before the last start
          crashes

vars == <<worker, row, hdu, table, disk, completed, accepted, origin, crashes>>

Init ==
  /\ worker = "starting"
  /\ row = 0
  /\ hdu = "primary"
  /\ table = <<>>
  /\ disk = NoFile
  /\ completed = 0
  /\ accepted = {}
  /\ origin = 0
  /\ crashes = 0

-----------------------------------------------------------------------------
(* ContinuumFits::create, called with a name to which it prepends '!' *)

\* Mutant of Create: without the '!' an existing file is continued, from row 1.
CreateOverOld ==
  /\ worker = "starting"
  /\ worker' = "running"
  /\ row' = 0
  /\ hdu' = "table"
  /\ disk' = IF disk = NoFile THEN <<>> ELSE disk
  /\ table' = disk'
  /\ UNCHANGED <<completed, accepted, origin, crashes>>

\* '!': a file of that name is deleted first.
Create ==
  /\ worker = "starting"
  /\ worker' = "running"
  /\ row' = 0
  /\ hdu' = "table"
  /\ table' = <<>>
  /\ disk' = <<>>
  /\ UNCHANGED <<completed, accepted, origin, crashes>>

\* continuum_worker logs it and returns; the process goes on without it.
CreateFails ==
  /\ Faults
  /\ worker = "starting"
  /\ worker' = "returned"
  /\ disk' \in {disk, NoFile, <<>>}
  /\ UNCHANGED <<row, hdu, table, completed, accepted, origin, crashes>>

-----------------------------------------------------------------------------
(* ContinuumFits::write *)

PutRow(whole) ==
  [i \in 1..(IF row + 1 > Len(table) THEN row + 1 ELSE Len(table)) |->
     IF i = row + 1 THEN [nth |-> completed + 1, whole |-> whole]
     ELSE IF i <= Len(table) THEN table[i] ELSE [nth |-> 0, whole |-> FALSE]]

(***************************************************************************)
(* Before the first row the primary header is updated.  write goes there   *)
(* from, and back to, the HDU that is current; a failure in between leaves *)
(* it in the primary HDU.                                                  *)
(***************************************************************************)
HeaderFails ==
  /\ Faults
  /\ row = 0
  /\ hdu' \in {hdu, "primary"}
  /\ UNCHANGED <<row, table, disk, accepted>>

\* The columns cannot be written to the primary HDU; m_row counts all the same.
WrongHdu ==
  /\ hdu = "primary"
  /\ row' = row + 1
  /\ UNCHANGED <<hdu, table, disk, accepted>>

\* m_row has been advanced; the columns that follow the bad one are skipped.
ColumnFails ==
  /\ Faults
  /\ hdu = "table"
  /\ row' = row + 1
  /\ table' \in {table, PutRow(FALSE)}
  /\ UNCHANGED <<hdu, disk, accepted>>

FlushFails ==
  /\ Faults
  /\ hdu = "table"
  /\ row' = row + 1
  /\ table' = PutRow(TRUE)
  /\ disk' \in {disk, table'}
  /\ UNCHANGED <<hdu, accepted>>

\* Mutant of RowWritten: no fits_flush_file.
RowUnflushed ==
  /\ hdu = "table"
  /\ row' = row + 1
  /\ table' = PutRow(TRUE)
  /\ accepted' = accepted \cup {completed + 1}
  /\ UNCHANGED <<hdu, disk>>

\* Mutant of RowWritten: m_row stays where it is.
RowUncounted ==
  /\ hdu = "table"
  /\ table' = PutRow(TRUE)
  /\ disk' = table'
  /\ accepted' = accepted \cup {completed + 1}
  /\ UNCHANGED <<row, hdu>>

RowWritten ==
  /\ hdu = "table"
  /\ row' = row + 1
  /\ table' = PutRow(TRUE)
  /\ disk' = table'
  /\ accepted' = accepted \cup {completed + 1}
  /\ UNCHANGED hdu

Write ==
  /\ worker = "running"
  /\ completed < MaxRows
  /\ completed' = completed + 1
  /\ HeaderFails \/ WrongHdu \/ ColumnFails \/ FlushFails \/ RowWritten
  /\ UNCHANGED <<worker, origin, crashes>>

\* The process dies and is started again on the same observation directory.
Crash ==
  /\ crashes < MaxCrashes
  /\ crashes' = crashes + 1
  /\ worker' = "starting"
  /\ origin' = completed
  /\ UNCHANGED <<row, hdu, table, disk, completed, accepted>>

Next == Create \/ CreateFails \/ Write \/ Crash

Spec == Init /\ [][Next]_vars

-----------------------------------------------------------------------------
(* Properties *)

\* Type invariant.
TypeOK ==
  /\ worker \in {"starting", "running", "returned"}
  /\ row \in Nat
  /\ hdu \in {"primary", "table"}
  /\ table \in Seq(Row) /\ Len(table) <= row
  /\ disk \in Seq(Row) \cup {NoFile}
  /\ completed \in Nat
  /\ accepted \in SUBSET (1..completed)
  /\ origin \in 0..completed
  /\ crashes \in Nat

OnDisk(n) == disk # NoFile /\ \E i \in 1..Len(disk) : disk[i] = [nth |-> n, whole |-> TRUE]

(***************************************************************************)
(* What write() reported as written is in the file, whole, for as long as  *)
(* this process runs, whatever fails after it.                             *)
(***************************************************************************)
AcceptedOnDisk ==
  worker = "running" => \A n \in accepted : n > origin => OnDisk(n)

(***************************************************************************)
(* Failed rows leave holes, but never shift or overwrite the others: the   *)
(* whole rows of the file are those of this run, in the order in which the *)
(* integrations were completed.                                            *)
(***************************************************************************)
RowsInOrder ==
  worker = "running" =>
    \A i, k \in 1..Len(disk) : disk[i].whole /\ disk[k].whole =>
      disk[i].nth > origin /\ (i < k => disk[i].nth < disk[k].nth)

(***************************************************************************)
(* "An existing directory is reused so Recorder may restart during that    *)
(* observation" (README): a restart keeps the rows written before it.      *)
(***************************************************************************)
RestartKeepsRows == \A n \in accepted : OnDisk(n)

=============================================================================
