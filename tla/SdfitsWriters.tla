---------------------------- MODULE SdfitsWriters ----------------------------
(***************************************************************************)
(* The Writer threads between their queues and the SDFITS files:           *)
(* write_spectrum_frame of src/src/zmq_receiver.cpp, the map of open       *)
(* files, its three kinds of mutex, and sdfits_create and                  *)
(* sdfits_write_subint of src/src/sdfits.cpp.  The process may die at any  *)
(* moment and be started again on the same observation directory.          *)
(*                                                                         *)
(* CFITSIO is modelled by what sdfits.cpp relies on: a call made with a    *)
(* nonzero status does nothing, and what was written shows in the file     *)
(* (with its row count) from the next fits_flush_file on.                  *)
(***************************************************************************)
EXTENDS Integers, Sequences, FiniteSets

CONSTANTS Writers,       \* the spectrum_writer_worker threads
          Bands,         \* BandKeys
          WriterOf,      \* spectrum_writer_index: the Writer each band is queued for
          Files,         \* file names
          FileOf,        \* the name of each band's file; frequencies are rounded
          Builds,        \* what fits_is_reentrant() may say of the CFITSIO in use
          FlushRows,     \* rows between two flushes (8)
          Faults,        \* file operations may fail
          MaxResults,    \* bound: results taken, per band
          MaxCrashes,    \* bound: times the process dies
          Nobody, NoJob, NoHandle, NoFile

\* A row of a file: the result it was written for, and whether all its columns were.
Row == [band : Bands, nth : Nat, whole : BOOLEAN]

Job == [band : Bands, nth : Nat]

\* A WriterState: the next row, the sdfits object's status, all rows written.
Handle == [rownum : Nat \ {0}, failed : BOOLEAN, rows : Seq(Row)]

(***************************************************************************)
(* The file name spells out subband, window and beam, all that picks the   *)
(* Writer: bands with one name have one Writer.                            *)
(***************************************************************************)
ASSUME WritersAssumption ==
  /\ WriterOf \in [Bands -> Writers]
  /\ FileOf \in [Bands -> Files]
  /\ \A a, b \in Bands : FileOf[a] = FileOf[b] => WriterOf[a] = WriterOf[b]
  /\ Builds \subseteq BOOLEAN /\ Faults \in BOOLEAN
  /\ FlushRows \in Nat \ {0}
  /\ MaxResults \in [Bands -> Nat] /\ MaxCrashes \in Nat
  /\ Nobody \notin Writers
  /\ NoJob \notin Job /\ NoHandle \notin Handle /\ NoFile \notin Seq(Row)

VARIABLES pc,           \* where each Writer is in write_spectrum_frame
          job,          \* the result it is writing
          mapOwner,     \* holder of writers_map_mutex
          cfitsioOwner, \* holder of cfitsio_mutex
          bandOwner,    \* holder of each WriterState's mutex
          writers,      \* the map: per band a Handle
          disk,         \* per file name NoFile or the rows a reader would find
          taken,        \* history: results of each band the Writers took
          lost,         \* history: results given up with a log message or in a crash
          resumed,      \* history: results of each band taken before the last start
          crashes,
          reentrant     \* cfitsio_supports_parallel_io()

threads == <<pc, job, mapOwner, cfitsioOwner, bandOwner>>
history == <<taken, lost, resumed, crashes>>
vars == <<threads, writers, disk, history, reentrant>>

Init ==
  /\ pc = [w \in Writers |-> "idle"]
  /\ job = [w \in Writers |-> NoJob]
  /\ mapOwner = Nobody
  /\ cfitsioOwner = Nobody
  /\ bandOwner = [b \in Bands |-> Nobody]
  /\ writers = [b \in Bands |-> NoHandle]
  /\ disk = [f \in Files |-> NoFile]
  /\ taken = [b \in Bands |-> 0]
  /\ lost = [b \in Bands |-> {}]
  /\ resumed = [b \in Bands |-> 0]
  /\ crashes = 0
  /\ reentrant \in Builds

-----------------------------------------------------------------------------
(* write_spectrum_frame, one step for each wait for a mutex *)

Goto(w, label) == pc' = [pc EXCEPT ![w] = label]

\* write_spectrum_frame returns, and the job with it.
Return(w) ==
  /\ Goto(w, "idle")
  /\ job' = [job EXCEPT ![w] = NoJob]

GiveUp(w) ==
  lost' = [lost EXCEPT ![job[w].band] = @ \cup {job[w].nth}]

\* The next result of one of its bands leaves the Writer's queue.
TakeJob(w, b) ==
  /\ pc[w] = "idle"
  /\ WriterOf[b] = w
  /\ taken[b] < MaxResults[b]
  /\ taken' = [taken EXCEPT ![b] = @ + 1]
  /\ job' = [job EXCEPT ![w] = [band |-> b, nth |-> taken[b] + 1]]
  /\ Goto(w, "lookup")
  /\ UNCHANGED <<mapOwner, cfitsioOwner, bandOwner, writers, disk, lost, resumed, crashes, reentrant>>

\* The map has the band: its mutex is released at once.
Found(w) ==
  /\ pc[w] = "lookup"
  /\ mapOwner = Nobody
  /\ writers[job[w].band] # NoHandle
  /\ Goto(w, "found")
  /\ UNCHANGED <<job, mapOwner, cfitsioOwner, bandOwner, writers, disk, history, reentrant>>

\* It has not: the map's mutex is held until the file is made.
Missing(w) ==
  /\ pc[w] = "lookup"
  /\ mapOwner = Nobody
  /\ writers[job[w].band] = NoHandle
  /\ mapOwner' = w
  /\ Goto(w, "missing")
  /\ UNCHANGED <<job, cfitsioOwner, bandOwner, writers, disk, history, reentrant>>

\* Mutant of Unnameable: the early return leaves the map locked.
UnnameableLocked(w) ==
  /\ Faults
  /\ pc[w] = "missing"
  /\ GiveUp(w)
  /\ Return(w)
  /\ UNCHANGED <<mapOwner, cfitsioOwner, bandOwner, writers, disk, taken, resumed, crashes, reentrant>>

\* The file name does not fit, or the start time cannot be formatted.
Unnameable(w) ==
  /\ Faults
  /\ pc[w] = "missing"
  /\ mapOwner' = Nobody
  /\ GiveUp(w)
  /\ Return(w)
  /\ UNCHANGED <<cfitsioOwner, bandOwner, writers, disk, taken, resumed, crashes, reentrant>>

\* Mutant of EnterCfitsio: the map's or the band's mutex is taken to be enough.
EnterFreely(w) == UNCHANGED cfitsioOwner

EnterCfitsio(w) ==
  IF reentrant THEN UNCHANGED cfitsioOwner
  ELSE cfitsioOwner = Nobody /\ cfitsioOwner' = w

LeaveCfitsio == cfitsioOwner' = IF reentrant THEN cfitsioOwner ELSE Nobody

StartCreate(w) ==
  /\ pc[w] = "missing"
  /\ EnterCfitsio(w)
  /\ Goto(w, "creating")
  /\ UNCHANGED <<job, mapOwner, bandOwner, writers, disk, history, reentrant>>

\* Mutant of Exists: sdfits_create overwrites.
ExistsUnseen(f) == FALSE

\* sdfits_create refuses a file that exists, whoever made it.
Exists(f) == disk[f] # NoFile

\* Mutant of Created: FITS rows count from 1.
CreatedAtZero(w) ==
  LET b == job[w].band
  IN /\ pc[w] = "creating"
     /\ ~Exists(FileOf[b])
     /\ disk' = [disk EXCEPT ![FileOf[b]] = <<>>]
     /\ writers' = [writers EXCEPT ![b] = [rownum |-> 0, failed |-> FALSE, rows |-> <<>>]]
     /\ mapOwner' = Nobody
     /\ LeaveCfitsio
     /\ Goto(w, "found")
     /\ UNCHANGED <<job, bandOwner, history, reentrant>>

Created(w) ==
  LET b == job[w].band
  IN /\ pc[w] = "creating"
     /\ ~Exists(FileOf[b])
     /\ disk' = [disk EXCEPT ![FileOf[b]] = <<>>]
     /\ writers' = [writers EXCEPT ![b] = [rownum |-> 1, failed |-> FALSE, rows |-> <<>>]]
     /\ mapOwner' = Nobody
     /\ LeaveCfitsio
     /\ Goto(w, "found")
     /\ UNCHANGED <<job, bandOwner, history, reentrant>>

(***************************************************************************)
(* Refused, or failed: without a trace, or after the file had been made.   *)
(* The new WriterState is dropped, the file stays.                         *)
(***************************************************************************)
CreateFailed(w) ==
  LET f == FileOf[job[w].band]
  IN /\ pc[w] = "creating"
     /\ \/ Exists(f) /\ UNCHANGED disk
        \/ Faults /\ ~Exists(f) /\ disk' \in {disk, [disk EXCEPT ![f] = <<>>]}
     /\ mapOwner' = Nobody
     /\ LeaveCfitsio
     /\ GiveUp(w)
     /\ Return(w)
     /\ UNCHANGED <<bandOwner, writers, taken, resumed, crashes, reentrant>>

LockBand(w) ==
  /\ pc[w] = "found"
  /\ bandOwner[job[w].band] = Nobody
  /\ bandOwner' = [bandOwner EXCEPT ![job[w].band] = w]
  /\ Goto(w, "locked")
  /\ UNCHANGED <<job, mapOwner, cfitsioOwner, writers, disk, history, reentrant>>

StartWrite(w) ==
  /\ pc[w] = "locked"
  /\ EnterCfitsio(w)
  /\ Goto(w, "writing")
  /\ UNCHANGED <<job, mapOwner, bandOwner, writers, disk, history, reentrant>>

-----------------------------------------------------------------------------
(* sdfits_write_subint *)

\* fits_write_col to a row of the table: the next one, or one already there.
PutRow(rows, rownum, row) ==
  [i \in 1..(IF rownum > Len(rows) THEN rownum ELSE Len(rows)) |->
     IF i = rownum THEN row ELSE rows[i]]

\* Mutant of FlushDue: one row late.
FlushDueLate(rownum) == rownum % (FlushRows + 1) = 0

FlushDue(rownum) == rownum % FlushRows = 0

Stored(w, whole) ==
  LET h == writers[job[w].band]
  IN PutRow(h.rows, h.rownum, [band |-> job[w].band, nth |-> job[w].nth, whole |-> whole])

\* Mutant of RowWritten: rownum stays where it is.
RowWrittenInPlace(w) ==
  LET b == job[w].band
      h == writers[b]
  IN /\ ~h.failed
     /\ writers' = [writers EXCEPT ![b].rows = Stored(w, TRUE)]
     /\ disk' = IF FlushDue(h.rownum) THEN [disk EXCEPT ![FileOf[b]] = Stored(w, TRUE)]
                ELSE disk
     /\ UNCHANGED lost

\* All columns written, flushed when due: the row counts.
RowWritten(w) ==
  LET b == job[w].band
      h == writers[b]
  IN /\ ~h.failed
     /\ writers' = [writers EXCEPT ![b] = [rownum |-> h.rownum + 1, failed |-> FALSE,
                                           rows |-> Stored(w, TRUE)]]
     /\ disk' = IF FlushDue(h.rownum) THEN [disk EXCEPT ![FileOf[b]] = Stored(w, TRUE)]
                ELSE disk
     /\ UNCHANGED lost

\* Mutant of ColumnFailed: status is reset with every row.
ColumnForgotten(w) ==
  LET b == job[w].band
      h == writers[b]
  IN /\ Faults
     /\ ~h.failed
     /\ writers' = [writers EXCEPT ![b] = [rownum |-> h.rownum + 1, failed |-> FALSE,
                                           rows |-> Stored(w, FALSE)]]
     /\ GiveUp(w)
     /\ UNCHANGED disk

(***************************************************************************)
(* A column cannot be written; the rest, the flush included, are skipped.  *)
(* status is never reset.                                                  *)
(***************************************************************************)
ColumnFailed(w) ==
  LET b == job[w].band
      h == writers[b]
  IN /\ Faults
     /\ ~h.failed
     /\ writers' = [writers EXCEPT ![b] = [rownum |-> h.rownum, failed |-> TRUE,
                                           rows |-> Stored(w, FALSE)]]
     /\ GiveUp(w)
     /\ UNCHANGED disk

FlushFailed(w) ==
  LET b == job[w].band
      h == writers[b]
  IN /\ Faults
     /\ ~h.failed
     /\ FlushDue(h.rownum)
     /\ writers' = [writers EXCEPT ![b] = [rownum |-> h.rownum, failed |-> TRUE,
                                           rows |-> Stored(w, TRUE)]]
     /\ disk' \in {disk, [disk EXCEPT ![FileOf[b]] = Stored(w, TRUE)]}
     /\ GiveUp(w)

\* An earlier call failed: nothing is written any more.
StillFailed(w) ==
  /\ writers[job[w].band].failed
  /\ GiveUp(w)
  /\ UNCHANGED <<writers, disk>>

FinishWrite(w) ==
  /\ pc[w] = "writing"
  /\ RowWritten(w) \/ ColumnFailed(w) \/ FlushFailed(w) \/ StillFailed(w)
  /\ LeaveCfitsio
  /\ bandOwner' = [bandOwner EXCEPT ![job[w].band] = Nobody]
  /\ Return(w)
  /\ UNCHANGED <<mapOwner, taken, resumed, crashes, reentrant>>

-----------------------------------------------------------------------------
(***************************************************************************)
(* The process dies - SIGTERM, an exception out of                         *)
(* configure_sdfits_metadata that no Writer catches, a fault - and is      *)
(* started again.  What no flush had made visible is gone.                 *)
(***************************************************************************)
OnDisk(b) ==
  LET f == FileOf[b]
  IN IF Exists(f) THEN {n \in 1..taken[b] : \E i \in 1..Len(disk[f]) :
                          disk[f][i].band = b /\ disk[f][i].nth = n /\ disk[f][i].whole}
     ELSE {}

Crash ==
  /\ crashes < MaxCrashes
  /\ crashes' = crashes + 1
  /\ pc' = [w \in Writers |-> "idle"]
  /\ job' = [w \in Writers |-> NoJob]
  /\ mapOwner' = Nobody
  /\ cfitsioOwner' = Nobody
  /\ bandOwner' = [b \in Bands |-> Nobody]
  /\ writers' = [b \in Bands |-> NoHandle]
  /\ lost' = [b \in Bands |-> lost[b] \cup ((1..taken[b]) \ OnDisk(b))]
  /\ resumed' = taken
  /\ UNCHANGED <<disk, taken, reentrant>>

Step(w) ==
  \/ Found(w) \/ Missing(w)
  \/ Unnameable(w) \/ StartCreate(w) \/ Created(w) \/ CreateFailed(w)
  \/ LockBand(w) \/ StartWrite(w) \/ FinishWrite(w)

Next ==
  \/ \E w \in Writers, b \in Bands : TakeJob(w, b)
  \/ \E w \in Writers : Step(w)
  \/ Crash

Safety == Init /\ [][Next]_vars

(***************************************************************************)
(* A Writer that can go on does: CFITSIO calls return and the scheduler    *)
(* runs every thread.  Results need not come and the process need not die. *)
(***************************************************************************)
Spec == Safety /\ \A w \in Writers : WF_vars(Step(w))

-----------------------------------------------------------------------------
(* Properties *)

\* Type invariant.
TypeOK ==
  /\ pc \in [Writers -> {"idle", "lookup", "missing", "creating", "found", "locked", "writing"}]
  /\ job \in [Writers -> Job \cup {NoJob}]
  /\ mapOwner \in Writers \cup {Nobody}
  /\ cfitsioOwner \in Writers \cup {Nobody}
  /\ bandOwner \in [Bands -> Writers \cup {Nobody}]
  /\ writers \in [Bands -> Handle \cup {NoHandle}]
  /\ disk \in [Files -> Seq(Row) \cup {NoFile}]
  /\ taken \in [Bands -> Nat]
  /\ lost \in [Bands -> SUBSET Nat]
  /\ resumed \in [Bands -> Nat]
  /\ crashes \in Nat
  /\ reentrant \in BOOLEAN

(***************************************************************************)
(* A CFITSIO that is not reentrant never has two threads in it, although   *)
(* files are created under one mutex and written under another.            *)
(***************************************************************************)
InCfitsio == {w \in Writers : pc[w] \in {"creating", "writing"}}

CfitsioExclusive == ~reentrant => Cardinality(InCfitsio) <= 1

(***************************************************************************)
(* Bands whose names round to the same file never share it: at most one of *)
(* them has it open, so their rows are not mixed.                          *)
(***************************************************************************)
OneBandPerFile ==
  \A a, b \in Bands :
    a # b /\ FileOf[a] = FileOf[b] => writers[a] = NoHandle \/ writers[b] = NoHandle

(***************************************************************************)
(* The rows a reader of a file finds are whole, of one band, and in the    *)
(* order its results were received ("partial SDFITS rows are never         *)
(* written").                                                              *)
(***************************************************************************)
DiskRowsSound ==
  \A f \in Files : disk[f] # NoFile =>
    \A i \in 1..Len(disk[f]) :
      /\ disk[f][i].whole
      /\ \A k \in 1..i : disk[f][k].band = disk[f][i].band
      /\ \A k \in 1..(i-1) : disk[f][k].nth < disk[f][i].nth

(***************************************************************************)
(* Fewer than FlushRows rows of a file counted as written are at risk from *)
(* a crash, also once the file has failed.                                 *)
(***************************************************************************)
AtRiskBounded ==
  \A b \in Bands : writers[b] # NoHandle =>
    writers[b].rownum - 1 - Len(disk[FileOf[b]]) < FlushRows

(***************************************************************************)
(* Every result a Writer took is a whole row of its band's file, or was    *)
(* given up, or is still in its Writer's hands.                            *)
(***************************************************************************)
InHand(b) == {n \in 1..taken[b] : \E w \in Writers : job[w] = [band |-> b, nth |-> n]}

InFile(b) ==
  {n \in 1..taken[b] : writers[b] # NoHandle /\ \E i \in 1..Len(writers[b].rows) :
     writers[b].rows[i] = [band |-> b, nth |-> n, whole |-> TRUE]}

EveryResultAccounted ==
  \A b \in Bands : 1..taken[b] = InHand(b) \cup InFile(b) \cup OnDisk(b) \cup lost[b]

(***************************************************************************)
(* What a reader finds in a file is never taken back, by a restart least   *)
(* of all: files only grow at their end.                                   *)
(***************************************************************************)
Extends(new, old) ==
  old = NoFile \/ (new # NoFile /\ Len(new) >= Len(old) /\ SubSeq(new, 1, Len(old)) = old)

FilesOnlyGrow == [][\A f \in Files : Extends(disk'[f], disk[f])]_vars

(***************************************************************************)
(* The three kinds of mutex cannot lock the Writers up: whatever a Writer  *)
(* took, it is done with in the end.                                       *)
(***************************************************************************)
EveryJobEnds == \A w \in Writers : pc[w] # "idle" ~> pc[w] = "idle"

(***************************************************************************)
(* "An existing directory is reused so Recorder may restart during that    *)
(* observation" (README): as long as no file operation fails, no result    *)
(* taken after the restart is given up.                                    *)
(***************************************************************************)
RecordsAfterRestart ==
  crashes > 0 => \A b \in Bands : \A n \in lost[b] : n <= resumed[b]

=============================================================================
