------------------------- MODULE SdfitsWritersProofs -------------------------
(***************************************************************************)
(* The Writers, their mutexes and their files for any number of Writers,   *)
(* bands and files, any period of flushes, any failure of a file operation *)
(* and any number of crashes.                                              *)
(***************************************************************************)
EXTENDS SdfitsWriters, SequenceTheorems, FiniteSetTheorems, TLAPS

\* Each mutex is held by the Writer that is in its section, and by no other.
Owners ==
  \A w \in Writers :
    /\ mapOwner = w <=> pc[w] \in {"missing", "creating"}
    /\ ~reentrant => (cfitsioOwner = w <=> pc[w] \in {"creating", "writing"})
    /\ \A b \in Bands :
         bandOwner[b] = w <=> pc[w] \in {"locked", "writing"} /\ job[w].band = b

\* A Writer has the last result taken of one of its bands, and the map has the
\* file of the band from the moment it was found or made.
Hands ==
  \A w \in Writers :
    /\ pc[w] = "idle" <=> job[w] = NoJob
    /\ job[w] # NoJob =>
         /\ WriterOf[job[w].band] = w
         /\ job[w].nth = taken[job[w].band] /\ job[w].nth > 0
    /\ pc[w] \in {"missing", "creating"} => writers[job[w].band] = NoHandle
    /\ pc[w] \in {"found", "locked", "writing"} => writers[job[w].band] # NoHandle

\* Its Writer has a result of this band in hand.
Busy(b) == job[WriterOf[b]] # NoJob /\ job[WriterOf[b]].band = b

\* The rows given to CFITSIO: rownum counts the good ones, a bad one is the last.
RowsSound(b, h) ==
  /\ Len(h.rows) = IF h.failed THEN h.rownum ELSE h.rownum - 1
  /\ \A i \in 1..Len(h.rows) :
       /\ h.rows[i].band = b
       /\ i < h.rownum => h.rows[i].whole
       /\ h.rows[i].nth \in 1..taken[b]
       /\ Busy(b) /\ ~h.failed => h.rows[i].nth < taken[b]
       /\ \A k \in 1..(i-1) : h.rows[k].nth < h.rows[i].nth

\* What a reader finds of them.
DiskFollows(h, d) ==
  /\ d # NoFile
  /\ Len(d) <= Len(h.rows)
  /\ \A i \in 1..Len(d) : d[i] = h.rows[i] /\ d[i].whole
  /\ IF h.failed THEN h.rownum - 1 - Len(d) < FlushRows
     ELSE h.rownum - 1 - Len(d) = (h.rownum - 1) % FlushRows

OpenFiles ==
  \A b \in Bands : writers[b] # NoHandle =>
    /\ RowsSound(b, writers[b])
    /\ DiskFollows(writers[b], disk[FileOf[b]])

Accounts ==
  /\ \A b \in Bands : lost[b] \subseteq 1..taken[b]
  /\ EveryResultAccounted

IInv == TypeOK /\ Owners /\ Hands /\ OpenFiles /\ OneBandPerFile /\ DiskRowsSound /\ Accounts

-----------------------------------------------------------------------------
(* Numbers, rows and results in hand *)

\* What counting to the next flush does.
LEMMA NextRemainder ==
  ASSUME NEW n \in Nat, NEW a \in Nat, n # 0
  PROVE  /\ a % n \in 0..(n-1)
         /\ (a + 1) % n = 0 <=> a % n = n - 1
         /\ (a + 1) % n # 0 => (a + 1) % n = (a % n) + 1
<1> DEFINE q == a \div n
           r == a % n
<1>1. q \in Int /\ r \in 0..(n-1) /\ a = n * q + r
  OBVIOUS
<1> HIDE DEF q, r
<1>2. CASE r = n - 1
  <2>1. a + 1 = n * (q + 1) + 0
    BY <1>1, <1>2
  <2>2. (a + 1) % n = 0
    BY <1>1, <2>1
  <2> QED
    BY <1>1, <1>2, <2>2 DEF r
<1>3. CASE r # n - 1
  <2>1. a + 1 = n * q + (r + 1) /\ r + 1 \in 0..(n-1)
    BY <1>1, <1>3
  <2>2. (a + 1) % n = r + 1
    BY <1>1, <2>1
  <2> QED
    BY <1>1, <1>3, <2>2 DEF r
<1> QED
  BY <1>2, <1>3

LEMMA JobFacts ==
  ASSUME TypeOK, Hands, NEW w \in Writers, pc[w] # "idle"
  PROVE  /\ job[w] # NoJob /\ job[w] \in Job
         /\ job[w].band \in Bands /\ job[w].nth \in Nat
         /\ WriterOf[job[w].band] = w
         /\ job[w].nth = taken[job[w].band] /\ job[w].nth > 0
         /\ Busy(job[w].band)
<1>1. job[w] # NoJob /\ job[w] \in Job
  BY DEF TypeOK, Hands
<1>2. job[w].band \in Bands /\ job[w].nth \in Nat
  BY <1>1 DEF Job
<1> QED
  BY <1>1, <1>2 DEF Hands, Busy

LEMMA HandleFacts ==
  ASSUME NEW h \in Handle
  PROVE  /\ h.rownum \in Nat \ {0} /\ h.failed \in BOOLEAN /\ h.rows \in Seq(Row)
         /\ h # NoHandle
BY WritersAssumption DEF Handle

LEMMA NewHandle ==
  ASSUME NEW rownum \in Nat \ {0}, NEW failed \in BOOLEAN, NEW rows \in Seq(Row)
  PROVE  [rownum |-> rownum, failed |-> failed, rows |-> rows] \in Handle
BY DEF Handle

LEMMA OpenFacts ==
  ASSUME TypeOK, NEW b \in Bands, writers[b] # NoHandle
  PROVE  /\ writers[b] \in Handle
         /\ writers[b].rownum \in Nat \ {0} /\ writers[b].failed \in BOOLEAN
         /\ writers[b].rows \in Seq(Row)
         /\ \A i \in 1..Len(writers[b].rows) :
              /\ writers[b].rows[i].band \in Bands
              /\ writers[b].rows[i].nth \in Nat
              /\ writers[b].rows[i].whole \in BOOLEAN
<1>1. writers[b] \in Handle
  BY DEF TypeOK
<1>2. writers[b].rows \in Seq(Row)
  BY <1>1 DEF Handle
<1>3. \A i \in 1..Len(writers[b].rows) : writers[b].rows[i] \in Row
  BY <1>2
<1>4. \A r \in Row : r.band \in Bands /\ r.nth \in Nat /\ r.whole \in BOOLEAN
  BY DEF Row
<1> QED
  BY <1>1, <1>3, <1>4, HandleFacts

LEMMA WritingFacts ==
  ASSUME IInv, NEW w \in Writers, pc[w] \in {"found", "locked", "writing"}
  PROVE  /\ writers[job[w].band] \in Handle
         /\ RowsSound(job[w].band, writers[job[w].band])
         /\ DiskFollows(writers[job[w].band], disk[FileOf[job[w].band]])
<1>1. job[w].band \in Bands /\ writers[job[w].band] # NoHandle
  BY JobFacts DEF IInv, Hands
<1> QED
  BY <1>1, OpenFacts DEF IInv, OpenFiles

\* The row that is written goes behind all others, as long as nothing failed.
LEMMA StoredFacts ==
  ASSUME IInv, NEW w \in Writers, pc[w] = "writing", ~writers[job[w].band].failed,
         NEW whole \in BOOLEAN
  PROVE  LET h == writers[job[w].band]
         IN /\ Stored(w, whole) \in Seq(Row)
            /\ Len(Stored(w, whole)) = h.rownum
            /\ Len(h.rows) = h.rownum - 1
            /\ \A i \in 1..(h.rownum - 1) : Stored(w, whole)[i] = h.rows[i]
            /\ Stored(w, whole)[h.rownum] =
                 [band |-> job[w].band, nth |-> job[w].nth, whole |-> whole]
<1> DEFINE h == writers[job[w].band]
           row == [band |-> job[w].band, nth |-> job[w].nth, whole |-> whole]
           put(i) == IF i = h.rownum THEN row ELSE h.rows[i]
<1>1. /\ h \in Handle /\ h.rownum \in Nat \ {0} /\ h.rows \in Seq(Row)
      /\ Len(h.rows) = h.rownum - 1
  BY WritingFacts, HandleFacts DEF RowsSound
<1>2. row \in Row
  BY JobFacts DEF Row, IInv
<1> HIDE DEF row
<1>3. \A i \in 1..h.rownum : put(i) \in Row
  BY <1>1, <1>2
<1>4. Stored(w, whole) = [i \in 1..h.rownum |-> put(i)]
  BY <1>1 DEF Stored, PutRow, row
<1> HIDE DEF h
<1>5. Stored(w, whole) \in Seq(Row) /\ Len(Stored(w, whole)) = h.rownum
  <2>1. Stored(w, whole) \in [1..h.rownum -> Row]
    BY <1>3, <1>4
  <2> QED
    BY <1>1, <2>1
<1>6. \A i \in 1..h.rownum : Stored(w, whole)[i] = put(i)
  BY <1>4
<1>7. \A i \in 1..(h.rownum - 1) : Stored(w, whole)[i] = h.rows[i]
  BY <1>1, <1>6
<1>8. Stored(w, whole)[h.rownum] = row
  BY <1>1, <1>6
<1> QED
  BY <1>1, <1>5, <1>7, <1>8 DEF h, row

-----------------------------------------------------------------------------
LEMMA InitInv == Init => IInv
<1> SUFFICES ASSUME Init PROVE IInv
  OBVIOUS
<1> USE WritersAssumption DEF Init
<1>1. TypeOK
  BY DEF TypeOK
<1>2. Owners /\ Hands
  BY DEF Owners, Hands
<1>3. OpenFiles /\ OneBandPerFile /\ DiskRowsSound
  BY DEF OpenFiles, OneBandPerFile, DiskRowsSound
<1>4. Accounts
  <2>1. \A b \in Bands : taken[b] = 0 /\ lost[b] = {}
    OBVIOUS
  <2>2. \A b \in Bands : InHand(b) = {} /\ InFile(b) = {} /\ OnDisk(b) = {}
    BY <2>1 DEF InHand, InFile, OnDisk
  <2> QED
    BY <2>1, <2>2 DEF Accounts, EveryResultAccounted
<1> QED
  BY <1>1, <1>2, <1>3, <1>4 DEF IInv

-----------------------------------------------------------------------------
(* What a write may do to the files *)

\* A row that counts: visible with all before it when a flush is due.
Written(w, b, h) ==
  /\ ~h.failed
  /\ writers' = [writers EXCEPT ![b] = [rownum |-> h.rownum + 1, failed |-> FALSE,
                                        rows |-> Stored(w, TRUE)]]
  /\ disk' = IF FlushDue(h.rownum) THEN [disk EXCEPT ![FileOf[b]] = Stored(w, TRUE)] ELSE disk
  /\ UNCHANGED lost

\* A row that does not count; it is only visible when all of its columns are there.
Spoilt(w, b, h) ==
  /\ ~h.failed
  /\ \E whole \in BOOLEAN :
       /\ writers' = [writers EXCEPT ![b] = [rownum |-> h.rownum, failed |-> TRUE,
                                             rows |-> Stored(w, whole)]]
       /\ \/ disk' = disk
          \/ whole = TRUE /\ disk' = [disk EXCEPT ![FileOf[b]] = Stored(w, TRUE)]
  /\ GiveUp(w)

LEMMA FinishCases ==
  ASSUME NEW w \in Writers, FinishWrite(w)
  PROVE  LET b == job[w].band
             h == writers[b]
         IN \/ Written(w, b, h)
            \/ Spoilt(w, b, h)
            \/ UNCHANGED <<writers, disk>> /\ GiveUp(w)
<1>1. CASE RowWritten(w)
  BY <1>1 DEF RowWritten, Written
<1>2. CASE ColumnFailed(w)
  BY <1>2 DEF ColumnFailed, Spoilt
<1>3. CASE FlushFailed(w)
  BY <1>3 DEF FlushFailed, Spoilt
<1>4. CASE StillFailed(w)
  BY <1>4 DEF StillFailed
<1> QED
  BY <1>1, <1>2, <1>3, <1>4 DEF FinishWrite

\* lost only gets the result that is given up.
LEMMA GiveUpFacts ==
  ASSUME TypeOK, Hands, NEW w \in Writers, pc[w] # "idle", GiveUp(w)
  PROVE  /\ lost' \in [Bands -> SUBSET Nat]
         /\ lost'[job[w].band] = lost[job[w].band] \cup {taken[job[w].band]}
         /\ \A b \in Bands : b # job[w].band => lost'[b] = lost[b]
<1>1. job[w].band \in Bands /\ job[w].nth \in Nat /\ job[w].nth = taken[job[w].band]
  BY JobFacts
<1>2. lost \in [Bands -> SUBSET Nat]
  BY DEF TypeOK
<1> QED
  BY <1>1, <1>2 DEF GiveUp

-----------------------------------------------------------------------------
(* Types, mutexes and hands: what pc and job follow *)

LEMMA TypeStep == IInv /\ [Next]_vars => TypeOK'
<1> SUFFICES ASSUME IInv, [Next]_vars PROVE TypeOK'
  OBVIOUS
<1> USE WritersAssumption DEF history, Goto, Return
<1>0. TypeOK /\ Hands
  BY DEF IInv
<1>1. ASSUME NEW w \in Writers, NEW b \in Bands, TakeJob(w, b) PROVE TypeOK'
  <2>1. [band |-> b, nth |-> taken[b] + 1] \in Job
    BY <1>0 DEF TypeOK, Job
  <2> QED
    BY <1>0, <1>1, <2>1 DEF TakeJob, TypeOK
<1>2. ASSUME NEW w \in Writers, Found(w) \/ Missing(w) \/ LockBand(w) PROVE TypeOK'
  <2>1. CASE Found(w) \/ Missing(w)
    BY <1>0, <2>1 DEF TypeOK, Found, Missing
  <2>2. CASE LockBand(w)
    BY <1>0, <2>2 DEF TypeOK, LockBand
  <2> QED
    BY <1>2, <2>1, <2>2
<1>3. ASSUME NEW w \in Writers, Unnameable(w) PROVE TypeOK'
  <2>1. lost' \in [Bands -> SUBSET Nat]
    BY <1>0, <1>3, GiveUpFacts DEF Unnameable
  <2> QED
    BY <1>0, <1>3, <2>1 DEF TypeOK, Unnameable
<1>4. ASSUME NEW w \in Writers, StartCreate(w) \/ StartWrite(w) PROVE TypeOK'
  BY <1>0, <1>4 DEF TypeOK, StartCreate, StartWrite, EnterCfitsio
<1>5. ASSUME NEW w \in Writers, Created(w) PROVE TypeOK'
  <2>1. <<>> \in Seq(Row)
    OBVIOUS
  <2>2. [rownum |-> 1, failed |-> FALSE, rows |-> <<>>] \in Handle
    BY <2>1 DEF Handle
  <2>3. job[w].band \in Bands /\ FileOf[job[w].band] \in Files
    BY <1>0, <1>5, JobFacts DEF Created
  <2>4. disk' \in [Files -> Seq(Row) \cup {NoFile}]
    BY <1>0, <1>5, <2>1, <2>3 DEF TypeOK, Created
  <2>5. writers' \in [Bands -> Handle \cup {NoHandle}]
    BY <1>0, <1>5, <2>2, <2>3 DEF TypeOK, Created
  <2> QED
    BY <1>0, <1>5, <2>4, <2>5 DEF TypeOK, Created, LeaveCfitsio
<1>6. ASSUME NEW w \in Writers, CreateFailed(w) PROVE TypeOK'
  <2>1. <<>> \in Seq(Row)
    OBVIOUS
  <2>2. lost' \in [Bands -> SUBSET Nat] /\ FileOf[job[w].band] \in Files
    BY <1>0, <1>6, GiveUpFacts, JobFacts DEF CreateFailed
  <2>3. disk' \in [Files -> Seq(Row) \cup {NoFile}]
    BY <1>0, <1>6, <2>1, <2>2 DEF TypeOK, CreateFailed
  <2> QED
    BY <1>0, <1>6, <2>2, <2>3 DEF TypeOK, CreateFailed, LeaveCfitsio
<1>7. ASSUME NEW w \in Writers, FinishWrite(w) PROVE TypeOK'
  <2> DEFINE b == job[w].band
             h == writers[b]
  <2>1. pc[w] = "writing" /\ b \in Bands /\ FileOf[b] \in Files
    BY <1>0, <1>7, JobFacts DEF FinishWrite
  <2>2. h \in Handle /\ h.rownum \in Nat \ {0}
    BY <2>1, WritingFacts, HandleFacts
  <2>3. ~h.failed => \A whole \in BOOLEAN : Stored(w, whole) \in Seq(Row)
    BY <2>1, StoredFacts
  <2>4. writers' \in [Bands -> Handle \cup {NoHandle}] /\ disk' \in [Files -> Seq(Row) \cup {NoFile}]
        /\ lost' \in [Bands -> SUBSET Nat]
    <3>1. CASE Written(w, b, h)
      <4>1. Stored(w, TRUE) \in Seq(Row)
        BY <2>3, <3>1 DEF Written
      <4>2. [rownum |-> h.rownum + 1, failed |-> FALSE, rows |-> Stored(w, TRUE)] \in Handle
        <5>1. h.rownum + 1 \in Nat \ {0}
          BY <2>2
        <5> HIDE DEF h
        <5> QED
          BY <4>1, <5>1, NewHandle
      <4> HIDE DEF b, h
      <4> QED
        BY <1>0, <2>1, <3>1, <4>1, <4>2 DEF TypeOK, Written
    <3>2. CASE Spoilt(w, b, h)
      <4>1. lost' \in [Bands -> SUBSET Nat]
        BY <1>0, <2>1, <3>2, GiveUpFacts DEF Spoilt
      <4>2. Stored(w, TRUE) \in Seq(Row)
        BY <2>3, <3>2 DEF Spoilt
      <4>3. PICK whole \in BOOLEAN :
              /\ writers' = [writers EXCEPT ![b] = [rownum |-> h.rownum, failed |-> TRUE,
                                                    rows |-> Stored(w, whole)]]
              /\ \/ disk' = disk
                 \/ whole = TRUE /\ disk' = [disk EXCEPT ![FileOf[b]] = Stored(w, TRUE)]
        BY <3>2 DEF Spoilt
      <4>4. [rownum |-> h.rownum, failed |-> TRUE, rows |-> Stored(w, whole)] \in Handle
        <5>1. Stored(w, whole) \in Seq(Row)
          BY <2>3, <3>2 DEF Spoilt
        <5> HIDE DEF h
        <5> QED
          BY <2>2, <5>1, NewHandle
      <4> HIDE DEF b, h
      <4>5. writers' \in [Bands -> Handle \cup {NoHandle}]
        BY <1>0, <2>1, <4>3, <4>4 DEF TypeOK
      <4>6. disk' \in [Files -> Seq(Row) \cup {NoFile}]
        BY <1>0, <2>1, <4>2, <4>3 DEF TypeOK
      <4> QED
        BY <4>1, <4>5, <4>6
    <3>3. CASE UNCHANGED <<writers, disk>> /\ GiveUp(w)
      BY <1>0, <2>1, <3>3, GiveUpFacts DEF TypeOK
    <3> QED
      BY <1>7, <3>1, <3>2, <3>3, FinishCases
  <2> QED
    BY <1>0, <1>7, <2>4 DEF TypeOK, FinishWrite, LeaveCfitsio
<1>8. CASE Crash
  <2>1. lost' \in [Bands -> SUBSET Nat]
    BY <1>0, <1>8 DEF TypeOK, Crash
  <2> QED
    BY <1>0, <1>8, <2>1 DEF TypeOK, Crash
<1>9. CASE UNCHANGED vars
  BY <1>0, <1>9 DEF TypeOK, vars, threads
<1> QED
  BY <1>1, <1>2, <1>3, <1>4, <1>5, <1>6, <1>7, <1>8, <1>9 DEF Next, Step

LEMMA OwnersStep == IInv /\ [Next]_vars => Owners'
<1> SUFFICES ASSUME IInv, [Next]_vars PROVE Owners'
  OBVIOUS
<1> USE WritersAssumption DEF Goto, Return
<1>0. TypeOK /\ Owners /\ Hands
  BY DEF IInv
<1>1. ASSUME NEW w \in Writers, NEW b \in Bands, TakeJob(w, b) PROVE Owners'
  BY <1>0, <1>1 DEF TakeJob, TypeOK, Owners
<1>2. ASSUME NEW w \in Writers, Found(w) \/ Missing(w) PROVE Owners'
  BY <1>0, <1>2 DEF Found, Missing, TypeOK, Owners
<1>3. ASSUME NEW w \in Writers, Unnameable(w) PROVE Owners'
  BY <1>0, <1>3 DEF Unnameable, TypeOK, Owners
<1>4. ASSUME NEW w \in Writers, StartCreate(w) \/ StartWrite(w) PROVE Owners'
  BY <1>0, <1>4 DEF StartCreate, StartWrite, EnterCfitsio, TypeOK, Owners
<1>5. ASSUME NEW w \in Writers, Created(w) PROVE Owners'
  <2>1. /\ mapOwner' = Nobody /\ LeaveCfitsio /\ pc[w] = "creating"
        /\ pc' = [pc EXCEPT ![w] = "found"] /\ UNCHANGED <<job, bandOwner, reentrant>>
    BY <1>5 DEF Created
  <2> QED
    BY <1>0, <2>1 DEF LeaveCfitsio, TypeOK, Owners
<1>6. ASSUME NEW w \in Writers, CreateFailed(w) PROVE Owners'
  <2>1. /\ mapOwner' = Nobody /\ LeaveCfitsio /\ pc[w] = "creating"
        /\ Return(w) /\ UNCHANGED <<bandOwner, reentrant>>
    BY <1>6 DEF CreateFailed
  <2> QED
    BY <1>0, <2>1 DEF LeaveCfitsio, TypeOK, Owners
<1>7. ASSUME NEW w \in Writers, LockBand(w) PROVE Owners'
  <2>1. job[w].band \in Bands
    BY <1>0, <1>7, JobFacts DEF LockBand
  <2> QED
    BY <1>0, <1>7, <2>1 DEF LockBand, TypeOK, Owners
<1>8. ASSUME NEW w \in Writers, FinishWrite(w) PROVE Owners'
  <2>1. job[w].band \in Bands
    BY <1>0, <1>8, JobFacts DEF FinishWrite
  <2>2. /\ pc[w] = "writing" /\ LeaveCfitsio /\ Return(w)
        /\ bandOwner' = [bandOwner EXCEPT ![job[w].band] = Nobody]
        /\ UNCHANGED <<mapOwner, reentrant>>
    BY <1>8 DEF FinishWrite
  <2> QED
    BY <1>0, <2>1, <2>2 DEF LeaveCfitsio, TypeOK, Owners
<1>9. CASE Crash
  BY <1>0, <1>9 DEF Crash, TypeOK, Owners
<1>10. CASE UNCHANGED vars
  BY <1>0, <1>10 DEF Owners, vars, threads
<1> QED
  BY <1>1, <1>2, <1>3, <1>4, <1>5, <1>6, <1>7, <1>8, <1>9, <1>10 DEF Next, Step

(***************************************************************************)
(* A Writer's step changes what its own bands have in hand and in the map, *)
(* and WriterOf keeps the bands of the others apart from them.             *)
(***************************************************************************)
LEMMA HandsStep == IInv /\ [Next]_vars => Hands'
<1> SUFFICES ASSUME IInv, [Next]_vars PROVE Hands'
  OBVIOUS
<1> USE WritersAssumption DEF Goto, Return, history
<1>0. TypeOK /\ Hands
  BY DEF IInv
<1>1. ASSUME NEW w \in Writers, NEW b \in Bands, TakeJob(w, b) PROVE Hands'
  <2>1. [band |-> b, nth |-> taken[b] + 1] # NoJob
    BY <1>0 DEF TypeOK, Job
  <2>2. \A v \in Writers : v # w /\ job[v] # NoJob => job[v].band \in Bands /\ job[v].band # b
    BY <1>0, <1>1, JobFacts DEF Hands, TakeJob
  <2> QED
    BY <1>0, <1>1, <2>1, <2>2 DEF TakeJob, TypeOK, Hands
<1>2. ASSUME NEW w \in Writers,
             Found(w) \/ Missing(w) \/ StartCreate(w) \/ LockBand(w) \/ StartWrite(w)
      PROVE  Hands'
  BY <1>0, <1>2 DEF Found, Missing, StartCreate, LockBand, StartWrite, TypeOK, Hands
<1>3. ASSUME NEW w \in Writers, Unnameable(w) \/ CreateFailed(w) PROVE Hands'
  <2>1. /\ pc[w] # "idle" /\ Return(w) /\ UNCHANGED <<writers, taken>>
    BY <1>3 DEF Unnameable, CreateFailed
  <2> QED
    BY <1>0, <2>1 DEF TypeOK, Hands
<1>4. ASSUME NEW w \in Writers, Created(w) \/ FinishWrite(w) PROVE Hands'
  <2> DEFINE b == job[w].band
  <2>1. pc[w] # "idle" /\ b \in Bands /\ WriterOf[b] = w
    BY <1>0, <1>4, JobFacts DEF Created, FinishWrite
  <2>2. \A a \in Bands : a # b => writers'[a] = writers[a]
    BY <1>0, <1>4, <2>1, FinishCases DEF Created, Written, Spoilt, TypeOK
  <2>3. \A v \in Writers : v # w /\ job[v] # NoJob => job[v].band \in Bands /\ job[v].band # b
    BY <1>0, <2>1, JobFacts DEF Hands
  <2>4. Created(w) => writers'[b] # NoHandle
    <3>1. <<>> \in Seq(Row)
      OBVIOUS
    <3>2. [rownum |-> 1, failed |-> FALSE, rows |-> <<>>] # NoHandle
      <4>1. [rownum |-> 1, failed |-> FALSE, rows |-> <<>>] \in Handle
        BY <3>1 DEF Handle
      <4> QED
        BY <4>1
    <3> QED
      BY <1>0, <2>1, <3>2 DEF Created, TypeOK
  <2>5. /\ UNCHANGED taken
        /\ \/ pc' = [pc EXCEPT ![w] = "found"] /\ job' = job /\ writers'[b] # NoHandle
           \/ Return(w)
    BY <1>4, <2>4 DEF Created, FinishWrite
  <2> HIDE DEF b
  <2>6. \A v \in Writers : v # w => pc'[v] = pc[v] /\ job'[v] = job[v]
    BY <1>0, <2>5 DEF TypeOK
  <2>7. ASSUME NEW v \in Writers, v # w
        PROVE  /\ pc'[v] = "idle" <=> job'[v] = NoJob
               /\ job'[v] # NoJob =>
                    /\ WriterOf[job'[v].band] = v
                    /\ job'[v].nth = taken'[job'[v].band] /\ job'[v].nth > 0
               /\ pc'[v] \in {"missing", "creating"} => writers'[job'[v].band] = NoHandle
               /\ pc'[v] \in {"found", "locked", "writing"} => writers'[job'[v].band] # NoHandle
    BY <1>0, <2>2, <2>3, <2>5, <2>6, <2>7 DEF Hands
  <2>8. /\ pc'[w] = "idle" <=> job'[w] = NoJob
        /\ job'[w] # NoJob =>
             /\ WriterOf[job'[w].band] = w
             /\ job'[w].nth = taken'[job'[w].band] /\ job'[w].nth > 0
        /\ pc'[w] \in {"missing", "creating"} => writers'[job'[w].band] = NoHandle
        /\ pc'[w] \in {"found", "locked", "writing"} => writers'[job'[w].band] # NoHandle
    BY <1>0, <2>1, <2>5 DEF Hands, TypeOK, b
  <2> QED
    BY <2>7, <2>8 DEF Hands
<1>5. CASE Crash
  BY <1>0, <1>5 DEF Crash, TypeOK, Hands
<1>6. CASE UNCHANGED vars
  BY <1>0, <1>6 DEF Hands, vars, threads
<1> QED
  BY <1>1, <1>2, <1>3, <1>4, <1>5, <1>6 DEF Next, Step

-----------------------------------------------------------------------------
(* The files that are open *)

\* A band of which no result is taken in hand, given up halfway or written.
LEMMA OpenKept ==
  ASSUME IInv, NEW b \in Bands, writers[b] # NoHandle, writers'[b] = writers[b],
         disk'[FileOf[b]] = disk[FileOf[b]], taken'[b] = taken[b], Busy(b)' => Busy(b)
  PROVE  RowsSound(b, writers[b])' /\ DiskFollows(writers[b], disk[FileOf[b]])'
BY DEF IInv, OpenFiles, RowsSound, DiskFollows

LEMMA BusyKept ==
  ASSUME \A w \in Writers : job'[w] = job[w] \/ job'[w] = NoJob, NEW b \in Bands, Busy(b)'
  PROVE  Busy(b)
BY WritersAssumption DEF Busy

\* A row behind sound rows, of a later result.
LEMMA AppendSound ==
  ASSUME NEW b, NEW rows, NEW new, NEW n \in Nat \ {0}, NEW nth \in Nat,
         nth > 0, \A i \in 1..(n-1) : new[i] = rows[i],
         new[n].band = b, new[n].nth = nth,
         \A i \in 1..(n-1) :
           /\ rows[i].band = b /\ rows[i].whole /\ rows[i].nth \in 1..nth /\ rows[i].nth < nth
           /\ \A k \in 1..(i-1) : rows[k].nth < rows[i].nth
  PROVE  \A i \in 1..n :
           /\ new[i].band = b
           /\ i < n => new[i].whole
           /\ new[i].nth \in 1..nth
           /\ \A k \in 1..(i-1) : new[k].nth < new[i].nth
<1> SUFFICES ASSUME NEW i \in 1..n
             PROVE  /\ new[i].band = b
                    /\ i < n => new[i].whole
                    /\ new[i].nth \in 1..nth
                    /\ \A k \in 1..(i-1) : new[k].nth < new[i].nth
  OBVIOUS
<1>1. CASE i = n
  <2>1. \A k \in 1..(i-1) : new[k].nth < nth
    BY <1>1
  <2> QED
    BY <1>1, <2>1
<1>2. CASE i # n
  <2>1. i \in 1..(n-1) /\ \A k \in 1..(i-1) : k \in 1..(n-1)
    BY <1>2
  <2>2. new[i] = rows[i] /\ \A k \in 1..(i-1) : new[k] = rows[k]
    BY <2>1
  <2>3. /\ rows[i].band = b /\ rows[i].whole /\ rows[i].nth \in 1..nth
        /\ \A k \in 1..(i-1) : rows[k].nth < rows[i].nth
    BY <2>1
  <2> QED
    BY <1>2, <2>2, <2>3
<1> QED
  BY <1>1, <1>2

\* The rows with the one that is written, before and after.
LEMMA StoredSound ==
  ASSUME IInv, NEW w \in Writers, pc[w] = "writing", NEW b, b = job[w].band,
         ~writers[b].failed, NEW whole \in BOOLEAN
  PROVE  LET n == writers[b].rownum
             new == Stored(w, whole)
         IN /\ new[n].whole = whole
            /\ \A i \in 1..n :
                 /\ new[i].band = b
                 /\ i < n => new[i].whole
                 /\ new[i].nth \in 1..taken[b]
                 /\ \A k \in 1..(i-1) : new[k].nth < new[i].nth
<1> DEFINE h == writers[b]
           new == Stored(w, whole)
<1>1. /\ b \in Bands /\ job[w].nth \in Nat /\ job[w].nth = taken[b] /\ job[w].nth > 0 /\ Busy(b)
  BY JobFacts DEF IInv
<1>2. h.rownum \in Nat \ {0} /\ RowsSound(b, h)
  BY WritingFacts, HandleFacts
<1>3. /\ Len(h.rows) = h.rownum - 1
      /\ \A i \in 1..(h.rownum - 1) : new[i] = h.rows[i]
      /\ new[h.rownum] = [band |-> b, nth |-> job[w].nth, whole |-> whole]
  BY StoredFacts
<1>4. new[h.rownum].band = b /\ new[h.rownum].nth = taken[b] /\ new[h.rownum].whole = whole
  BY <1>1, <1>3
<1>5. \A i \in 1..(h.rownum - 1) :
        /\ h.rows[i].band = b /\ h.rows[i].whole /\ h.rows[i].nth \in 1..taken[b]
        /\ h.rows[i].nth < taken[b]
        /\ \A k \in 1..(i-1) : h.rows[k].nth < h.rows[i].nth
  <2> HIDE DEF h, new
  <2>1. h.failed = FALSE
    BY WritingFacts, HandleFacts DEF h
  <2>2. \A i \in 1..(h.rownum - 1) : i \in 1..Len(h.rows) /\ i < h.rownum
    BY <1>2, <1>3
  <2> QED
    BY <1>1, <1>2, <2>1, <2>2 DEF RowsSound
<1>6. taken[b] \in Nat /\ taken[b] > 0
  BY <1>1
<1> DEFINE n == h.rownum
           rows == h.rows
           nth == taken[b]
<1>7. /\ n \in Nat \ {0} /\ \A i \in 1..(n-1) : new[i] = rows[i]
      /\ new[n].band = b /\ new[n].nth = nth
      /\ \A i \in 1..(n-1) :
           /\ rows[i].band = b /\ rows[i].whole /\ rows[i].nth \in 1..nth /\ rows[i].nth < nth
           /\ \A k \in 1..(i-1) : rows[k].nth < rows[i].nth
  BY <1>2, <1>3, <1>4, <1>5
<1> HIDE DEF n, rows, nth, h, new
<1>8. nth \in Nat /\ nth > 0
  BY <1>6 DEF nth
<1>9. \A i \in 1..n :
        /\ new[i].band = b
        /\ i < n => new[i].whole
        /\ new[i].nth \in 1..nth
        /\ \A k \in 1..(i-1) : new[k].nth < new[i].nth
  BY <1>7, <1>8, AppendSound
<1> QED
  BY <1>4, <1>9 DEF n, nth, h, new

\* The rows with one that was written well.
LEMMA StoredWhole ==
  ASSUME IInv, NEW w \in Writers, pc[w] = "writing", NEW b, b = job[w].band,
         ~writers[b].failed
  PROVE  LET n == writers[b].rownum
             new == Stored(w, TRUE)
         IN /\ new[n].whole = TRUE
            /\ \A i \in 1..n :
                 /\ new[i].band = b
                 /\ i < n => new[i].whole
                 /\ new[i].nth \in 1..taken[b]
                 /\ \A k \in 1..(i-1) : new[k].nth < new[i].nth
<1> DEFINE whole == TRUE
           n == writers[b].rownum
           new == Stored(w, whole)
<1>1. whole \in BOOLEAN
  OBVIOUS
<1> HIDE DEF whole
<1>2. /\ new[n].whole = whole
      /\ \A i \in 1..n :
           /\ new[i].band = b
           /\ i < n => new[i].whole
           /\ new[i].nth \in 1..taken[b]
           /\ \A k \in 1..(i-1) : new[k].nth < new[i].nth
  BY <1>1, StoredSound
<1> HIDE DEF n
<1> QED
  BY <1>2 DEF whole, n

\* What a reader finds follows the rows that count, flushed or not.
LEMMA FlushFollows ==
  ASSUME NEW n \in Nat \ {0}, NEW old \in Nat, old <= n - 1, n - 1 - old = (n - 1) % FlushRows
  PROVE  /\ n - 1 - old < FlushRows
         /\ FlushDue(n) => n % FlushRows = 0
         /\ ~FlushDue(n) => n - old = n % FlushRows
<1>1. n - 1 \in Nat /\ FlushRows \in Nat /\ FlushRows # 0 /\ n = (n - 1) + 1
  BY WritersAssumption
<1>2. (n - 1) % FlushRows \in 0..(FlushRows - 1)
  BY <1>1, NextRemainder
<1>3. ~FlushDue(n) => n % FlushRows = ((n - 1) % FlushRows) + 1
  BY <1>1, NextRemainder DEF FlushDue
<1>4. (n - 1) % FlushRows \in Int /\ FlushRows \in Int
  BY <1>1, <1>2
<1> DEFINE r == (n - 1) % FlushRows
<1>5. n - 1 - old = r /\ r \in 0..(FlushRows - 1)
  BY <1>2
<1>6. ~FlushDue(n) => n % FlushRows = r + 1
  BY <1>3
<1> HIDE DEF r
<1>7. r + 1 = n - old
  BY <1>1, <1>5
<1> QED
  BY <1>1, <1>5, <1>6, <1>7 DEF FlushDue

LEMMA WrittenSound ==
  ASSUME IInv, NEW w \in Writers, FinishWrite(w), NEW b, b = job[w].band,
         Written(w, b, writers[b])
  PROVE  RowsSound(b, writers[b])' /\ DiskFollows(writers[b], disk[FileOf[b]])'
<1> DEFINE h == writers[b]
           d == disk[FileOf[b]]
           new == Stored(w, TRUE)
<1>1. b \in Bands /\ FileOf[b] \in Files /\ pc[w] = "writing"
  BY JobFacts, WritersAssumption DEF FinishWrite, IInv
<1>2. /\ h.rownum \in Nat \ {0} /\ ~h.failed /\ h.failed \in BOOLEAN /\ DiskFollows(h, d)
  BY <1>1, WritingFacts, HandleFacts DEF Written
<1>3. /\ new \in Seq(Row) /\ Len(new) = h.rownum /\ Len(h.rows) = h.rownum - 1
      /\ \A i \in 1..(h.rownum - 1) : new[i] = h.rows[i]
  BY <1>1, <1>2, StoredFacts
<1>4. \A i \in 1..h.rownum :
        /\ new[i].band = b /\ new[i].whole
        /\ new[i].nth \in 1..taken[b]
        /\ \A k \in 1..(i-1) : new[k].nth < new[i].nth
  <2>0. pc[w] = "writing" /\ b = job[w].band /\ ~writers[b].failed
    BY <1>1, <1>2
  <2>1. /\ new[h.rownum].whole = TRUE
        /\ \A i \in 1..h.rownum :
             /\ new[i].band = b
             /\ i < h.rownum => new[i].whole
             /\ new[i].nth \in 1..taken[b]
             /\ \A k \in 1..(i-1) : new[k].nth < new[i].nth
    BY <2>0, StoredWhole
  <2> HIDE DEF h, new
  <2>2. \A i \in 1..h.rownum : i = h.rownum \/ i < h.rownum
    BY <1>2
  <2> QED
    BY <2>1, <2>2
<1>5. /\ writers'[b] = [rownum |-> h.rownum + 1, failed |-> FALSE, rows |-> new]
      /\ disk'[FileOf[b]] = IF FlushDue(h.rownum) THEN new ELSE d
      /\ taken' = taken
  BY <1>1 DEF Written, FinishWrite, IInv, TypeOK
<1>6. ~Busy(b)'
  BY <1>1, JobFacts DEF Busy, FinishWrite, Return, IInv, TypeOK
<1>7. d \in Seq(Row) /\ Len(d) \in Nat /\ d # NoFile
  <2>1. d \in Seq(Row)
    BY <1>1, <1>2 DEF IInv, TypeOK, DiskFollows
  <2> HIDE DEF d, h
  <2> QED
    BY <1>2, <2>1 DEF DiskFollows
<1> DEFINE dd == disk'[FileOf[b]]
           hh == writers'[b]
<1> HIDE DEF h, d, new
<1>8. /\ Len(d) <= h.rownum - 1 /\ h.rownum - 1 - Len(d) = (h.rownum - 1) % FlushRows
      /\ \A i \in 1..Len(d) : d[i] = h.rows[i] /\ d[i].whole
  BY <1>2, <1>3 DEF DiskFollows
<1>9. \A i \in 1..Len(d) : i \in 1..(h.rownum - 1)
  BY <1>2, <1>7, <1>8
<1>10. /\ hh.rownum = h.rownum + 1 /\ hh.failed = FALSE /\ hh.rows = new
  BY <1>5
<1>11. dd = IF FlushDue(h.rownum) THEN new ELSE d
  BY <1>5
<1> HIDE DEF hh, dd
<1>12. RowsSound(b, writers[b])'
  <2>1. Len(hh.rows) = hh.rownum - 1
    BY <1>2, <1>3, <1>10
  <2>2. \A i \in 1..Len(hh.rows) :
          /\ hh.rows[i].band = b
          /\ hh.rows[i].whole
          /\ hh.rows[i].nth \in 1..taken'[b]
          /\ \A k \in 1..(i-1) : hh.rows[k].nth < hh.rows[i].nth
    BY <1>3, <1>4, <1>5, <1>10
  <2> QED
    BY <1>6, <1>10, <2>1, <2>2 DEF RowsSound, hh
<1>13. DiskFollows(hh, dd)
  <2>1. CASE FlushDue(h.rownum)
    <3>1. dd = new /\ new # NoFile
      BY <1>3, <1>11, <2>1, WritersAssumption
    <3>2. h.rownum % FlushRows = 0 /\ h.rownum + 1 - 1 = h.rownum
      BY <1>2, <2>1 DEF FlushDue
    <3>3. hh.rownum - 1 - Len(new) = (hh.rownum - 1) % FlushRows
      BY <1>2, <1>3, <1>10, <3>2
    <3> QED
      BY <1>2, <1>3, <1>4, <1>10, <3>1, <3>3 DEF DiskFollows
  <2>2. CASE ~FlushDue(h.rownum)
    <3>1. dd = d /\ \A i \in 1..Len(d) : d[i] = new[i] /\ d[i].whole
      BY <1>3, <1>8, <1>9, <1>11, <2>2
    <3>2. h.rownum - Len(d) = h.rownum % FlushRows
      BY <1>2, <1>7, <1>8, <2>2, FlushFollows
    <3>3. hh.rownum - 1 = h.rownum
      BY <1>2, <1>10
    <3>4. hh.rownum - 1 - Len(d) = (hh.rownum - 1) % FlushRows
      BY <1>10, <3>2, <3>3
    <3>5. Len(d) <= Len(hh.rows)
      BY <1>2, <1>3, <1>7, <1>8, <1>10
    <3> QED
      BY <1>7, <1>10, <3>1, <3>4, <3>5 DEF DiskFollows
  <2> QED
    BY <2>1, <2>2
<1> QED
  BY <1>12, <1>13 DEF DiskFollows, hh, dd

LEMMA SpoiltSound ==
  ASSUME IInv, NEW w \in Writers, FinishWrite(w), NEW b, b = job[w].band,
         Spoilt(w, b, writers[b])
  PROVE  RowsSound(b, writers[b])' /\ DiskFollows(writers[b], disk[FileOf[b]])'
<1> DEFINE h == writers[b]
           d == disk[FileOf[b]]
<1>1. b \in Bands /\ FileOf[b] \in Files /\ pc[w] = "writing"
  BY JobFacts, WritersAssumption DEF FinishWrite, IInv
<1>2. /\ h.rownum \in Nat \ {0} /\ ~h.failed /\ h.failed \in BOOLEAN /\ DiskFollows(h, d)
  BY <1>1, WritingFacts, HandleFacts DEF Spoilt
<1>3. PICK whole \in BOOLEAN :
        /\ writers' = [writers EXCEPT ![b] = [rownum |-> h.rownum, failed |-> TRUE,
                                              rows |-> Stored(w, whole)]]
        /\ \/ disk' = disk
           \/ whole = TRUE /\ disk' = [disk EXCEPT ![FileOf[b]] = Stored(w, TRUE)]
  BY DEF Spoilt
<1> DEFINE new == Stored(w, whole)
<1>4. /\ new \in Seq(Row) /\ Len(new) = h.rownum /\ Len(h.rows) = h.rownum - 1
      /\ \A i \in 1..(h.rownum - 1) : new[i] = h.rows[i]
  BY <1>1, <1>2, StoredFacts
<1>5. /\ new[h.rownum].whole = whole
      /\ \A i \in 1..h.rownum :
           /\ new[i].band = b
           /\ i < h.rownum => new[i].whole
           /\ new[i].nth \in 1..taken[b]
           /\ \A k \in 1..(i-1) : new[k].nth < new[i].nth
  BY <1>1, <1>2, StoredSound
<1>6. /\ writers'[b] = [rownum |-> h.rownum, failed |-> TRUE, rows |-> new]
      /\ taken' = taken
  BY <1>1, <1>3 DEF FinishWrite, IInv, TypeOK
<1>7. disk'[FileOf[b]] = d \/ (whole = TRUE /\ disk'[FileOf[b]] = new)
  BY <1>1, <1>3 DEF IInv, TypeOK
<1>8. d \in Seq(Row) /\ Len(d) \in Nat /\ d # NoFile
  <2>1. d \in Seq(Row)
    BY <1>1, <1>2 DEF IInv, TypeOK, DiskFollows
  <2> HIDE DEF d, h
  <2> QED
    BY <1>2, <2>1 DEF DiskFollows
<1> DEFINE dd == disk'[FileOf[b]]
           hh == writers'[b]
<1> HIDE DEF h, d, new
<1>9. /\ Len(d) <= h.rownum - 1 /\ h.rownum - 1 - Len(d) = (h.rownum - 1) % FlushRows
      /\ \A i \in 1..Len(d) : d[i] = h.rows[i] /\ d[i].whole
  BY <1>2, <1>4 DEF DiskFollows
<1>10. \A i \in 1..Len(d) : i \in 1..(h.rownum - 1)
  BY <1>2, <1>8, <1>9
<1>11. /\ hh.rownum = h.rownum /\ hh.failed = TRUE /\ hh.rows = new
  BY <1>6
<1>12. dd = d \/ (whole = TRUE /\ dd = new)
  BY <1>7
<1> HIDE DEF hh, dd
<1>13. RowsSound(b, writers[b])'
  BY <1>4, <1>5, <1>6, <1>11 DEF RowsSound, hh
<1>14. DiskFollows(hh, dd)
  <2>1. CASE dd = d
    <3>1. \A i \in 1..Len(d) : d[i] = new[i] /\ d[i].whole
      BY <1>4, <1>9, <1>10
    <3>2. h.rownum - 1 - Len(d) < FlushRows /\ Len(d) <= h.rownum
      BY <1>2, <1>8, <1>9, FlushFollows
    <3> QED
      BY <1>4, <1>8, <1>11, <2>1, <3>1, <3>2 DEF DiskFollows
  <2>2. CASE whole = TRUE /\ dd = new
    <3>1. \A i \in 1..h.rownum : i = h.rownum \/ i < h.rownum
      BY <1>2
    <3>2. \A i \in 1..h.rownum : new[i].whole
      BY <1>5, <2>2, <3>1
    <3>3. new # NoFile /\ h.rownum - 1 - Len(new) < FlushRows
      BY <1>2, <1>4, WritersAssumption
    <3>4. Len(new) <= Len(new)
      BY <1>2, <1>4
    <3> QED
      BY <1>4, <1>11, <2>2, <3>2, <3>3, <3>4 DEF DiskFollows
  <2> QED
    BY <1>12, <2>1, <2>2
<1> QED
  BY <1>13, <1>14 DEF DiskFollows, hh, dd

\* The files of other open bands are other files.
LEMMA OtherFiles ==
  ASSUME IInv, NEW w \in Writers, Created(w) \/ CreateFailed(w) \/ FinishWrite(w),
         NEW a \in Bands, writers[a] # NoHandle, a # job[w].band
  PROVE  writers'[a] = writers[a] /\ disk'[FileOf[a]] = disk[FileOf[a]]
<1> DEFINE b == job[w].band
<1>1. /\ b \in Bands /\ FileOf[b] \in Files /\ FileOf[a] \in Files
      /\ writers \in [Bands -> Handle \cup {NoHandle}]
      /\ disk \in [Files -> Seq(Row) \cup {NoFile}]
  BY JobFacts, WritersAssumption DEF Created, CreateFailed, FinishWrite, IInv, TypeOK
<1>2. disk[FileOf[a]] # NoFile
  BY DEF IInv, OpenFiles, DiskFollows
<1>3. CASE Created(w)
  BY <1>1, <1>2, <1>3 DEF Created, Exists
<1>4. CASE CreateFailed(w)
  BY <1>1, <1>2, <1>4 DEF CreateFailed, Exists
<1>5. CASE FinishWrite(w)
  <2>1. FileOf[a] # FileOf[b]
    BY <1>1, <1>5 DEF FinishWrite, IInv, Hands, OneBandPerFile
  <2>2. \/ Written(w, b, writers[b])
        \/ Spoilt(w, b, writers[b])
        \/ UNCHANGED <<writers, disk>>
    BY <1>5, FinishCases
  <2> HIDE DEF b
  <2>3. a # b
    BY DEF b
  <2> QED
    BY <1>1, <2>1, <2>2, <2>3 DEF Written, Spoilt
<1> QED
  BY <1>3, <1>4, <1>5

LEMMA OpenFilesStep == IInv /\ [Next]_vars => OpenFiles'
<1> SUFFICES ASSUME IInv, [Next]_vars, NEW a \in Bands, writers'[a] # NoHandle
             PROVE  RowsSound(a, writers[a])' /\ DiskFollows(writers[a], disk[FileOf[a]])'
  BY DEF OpenFiles
<1> DEFINE Goal == RowsSound(a, writers[a])' /\ DiskFollows(writers[a], disk[FileOf[a]])'
<1>0. TypeOK /\ Hands /\ OpenFiles
  BY DEF IInv
<1>1. ASSUME NEW w \in Writers, NEW b \in Bands, TakeJob(w, b) PROVE Goal
  <2>1. UNCHANGED <<writers, disk>> /\ WriterOf[b] = w
        /\ job' = [job EXCEPT ![w] = [band |-> b, nth |-> taken[b] + 1]]
        /\ taken' = [taken EXCEPT ![b] = @ + 1]
    BY <1>1 DEF TakeJob
  <2>2. CASE a = b
    <3>1. taken'[a] = taken[a] + 1 /\ taken[a] \in Nat
      BY <1>0, <2>1, <2>2 DEF TypeOK
    <3>2. RowsSound(a, writers[a]) /\ DiskFollows(writers[a], disk[FileOf[a]])
      BY <1>0, <2>1 DEF OpenFiles
    <3>3. \A n \in 1..taken[a] : n \in 1..taken'[a] /\ n < taken'[a]
      BY <3>1
    <3>4. RowsSound(a, writers[a])'
      BY <2>1, <3>2, <3>3 DEF RowsSound
    <3> QED
      BY <2>1, <3>2, <3>4 DEF DiskFollows
  <2>3. CASE a # b
    <3>1. taken'[a] = taken[a]
      BY <1>0, <2>1, <2>3 DEF TypeOK
    <3>2. ASSUME Busy(a)' PROVE Busy(a)
      BY <1>0, <2>1, <2>3, <3>2, WritersAssumption DEF Busy, TypeOK
    <3> QED
      BY <2>1, <3>1, <3>2, OpenKept
  <2> QED
    BY <2>2, <2>3
<1>2. ASSUME NEW w \in Writers,
             \/ Found(w) \/ Missing(w) \/ Unnameable(w)
             \/ StartCreate(w) \/ LockBand(w) \/ StartWrite(w)
      PROVE  Goal
  <2>1. UNCHANGED <<writers, disk, taken>> /\ (job' = job \/ job' = [job EXCEPT ![w] = NoJob])
    BY <1>2 DEF Found, Missing, Unnameable, StartCreate, LockBand, StartWrite, Return, history
  <2>2. \A v \in Writers : job'[v] = job[v] \/ job'[v] = NoJob
    BY <1>0, <2>1 DEF TypeOK
  <2> QED
    BY <2>1, <2>2, BusyKept, OpenKept
<1>3. ASSUME NEW w \in Writers, Created(w) \/ CreateFailed(w) \/ FinishWrite(w) PROVE Goal
  <2> DEFINE b == job[w].band
  <2>1. b \in Bands /\ FileOf[b] \in Files /\ pc[w] # "idle"
    BY <1>0, <1>3, JobFacts, WritersAssumption DEF Created, CreateFailed, FinishWrite
  <2>2. taken' = taken /\ (job' = job \/ job' = [job EXCEPT ![w] = NoJob])
    BY <1>3 DEF Created, CreateFailed, FinishWrite, Return, history
  <2>3. Busy(a)' => Busy(a)
    <3>1. \A v \in Writers : job'[v] = job[v] \/ job'[v] = NoJob
      BY <1>0, <2>2 DEF TypeOK
    <3> QED
      BY <3>1, BusyKept
  <2>4. CASE a # b
    <3>1. writers[a] # NoHandle
      BY <1>0, <1>3, <2>1, <2>4, FinishCases
         DEF Created, CreateFailed, Written, Spoilt, TypeOK
    <3>2. writers'[a] = writers[a] /\ disk'[FileOf[a]] = disk[FileOf[a]]
      BY <1>3, <2>4, <3>1, OtherFiles
    <3> QED
      BY <2>2, <2>3, <3>1, <3>2, OpenKept
  <2>5. CASE a = b /\ Created(w)
    <3>1. <<>> \in Seq(Row)
      OBVIOUS
    <3>2. /\ writers'[a] = [rownum |-> 1, failed |-> FALSE, rows |-> <<>>]
          /\ disk'[FileOf[a]] = <<>>
      BY <1>0, <2>1, <2>5 DEF Created, TypeOK
    <3>3. 0 % FlushRows = 0
      BY WritersAssumption
    <3>4. <<>> # NoFile
      BY <3>1, WritersAssumption
    <3>5. RowsSound(a, writers[a])'
      BY <3>2 DEF RowsSound
    <3> QED
      BY <3>2, <3>3, <3>4, <3>5 DEF DiskFollows
  <2>6. CASE a = b /\ CreateFailed(w)
    <3>1. writers[b] = NoHandle /\ writers' = writers
      BY <1>0, <2>6 DEF CreateFailed, Hands
    <3> QED
      BY <2>6, <3>1
  <2>7. CASE a = b /\ FinishWrite(w)
    <3>1. CASE Written(w, b, writers[b])
      BY <2>7, <3>1, WrittenSound
    <3>2. CASE Spoilt(w, b, writers[b])
      BY <2>7, <3>2, SpoiltSound
    <3>3. CASE UNCHANGED <<writers, disk>>
      BY <2>2, <2>3, <3>3, OpenKept
    <3> QED
      BY <2>7, <3>1, <3>2, <3>3, FinishCases
  <2> QED
    BY <1>3, <2>4, <2>5, <2>6, <2>7
<1>4. CASE Crash
  BY <1>4 DEF Crash
<1>5. CASE UNCHANGED vars
  <2>1. UNCHANGED <<writers, disk, taken, job>>
    BY <1>5 DEF vars, threads, history
  <2>2. Busy(a)' => Busy(a)
    BY <2>1 DEF Busy
  <2> QED
    BY <2>1, <2>2, OpenKept
<1> QED
  BY <1>1, <1>2, <1>3, <1>4, <1>5 DEF Next, Step

LEMMA OneBandPerFileStep == IInv /\ [Next]_vars => OneBandPerFile'
<1> SUFFICES ASSUME IInv, [Next]_vars PROVE OneBandPerFile'
  OBVIOUS
<1>0. TypeOK /\ Hands /\ OneBandPerFile
  BY DEF IInv
<1>1. ASSUME NEW w \in Writers, Created(w) PROVE OneBandPerFile'
  <2> DEFINE b == job[w].band
  <2>1. \A a \in Bands : a # b => writers'[a] = writers[a]
    BY <1>0, <1>1 DEF Created, TypeOK
  <2>2. \A a \in Bands : writers[a] # NoHandle => FileOf[a] # FileOf[b]
    BY <1>0, <1>1 DEF Created, Exists, IInv, OpenFiles, DiskFollows
  <2> HIDE DEF b
  <2> QED
    BY <1>0, <2>1, <2>2 DEF OneBandPerFile
<1>2. ASSUME NEW w \in Writers, FinishWrite(w) PROVE OneBandPerFile'
  <2> DEFINE b == job[w].band
  <2>1. b \in Bands /\ writers[b] # NoHandle
    BY <1>0, <1>2, JobFacts DEF FinishWrite, Hands
  <2>2. \A a \in Bands : a # b => writers'[a] = writers[a]
    BY <1>0, <1>2, <2>1, FinishCases DEF Written, Spoilt, TypeOK
  <2> HIDE DEF b
  <2> QED
    BY <1>0, <2>1, <2>2 DEF OneBandPerFile
<1>3. CASE Crash
  BY <1>3 DEF Crash, OneBandPerFile
<1>4. CASE writers' = writers
  BY <1>0, <1>4 DEF OneBandPerFile
<1>5. ASSUME NEW w \in Writers,
             \/ Found(w) \/ Missing(w) \/ Unnameable(w) \/ StartCreate(w) \/ CreateFailed(w)
             \/ LockBand(w) \/ StartWrite(w) \/ \E b \in Bands : TakeJob(w, b)
      PROVE  writers' = writers
  BY <1>5
     DEF Found, Missing, Unnameable, StartCreate, CreateFailed, LockBand, StartWrite, TakeJob
<1>6. CASE UNCHANGED vars
  BY <1>4, <1>6 DEF vars
<1> QED
  BY <1>1, <1>2, <1>3, <1>4, <1>5, <1>6 DEF Next, Step

-----------------------------------------------------------------------------
(* The files on disk *)

\* All that can become of a file: made empty, or replaced by all rows written.
LEMMA DiskCases ==
  ASSUME IInv, [Next]_vars, NEW f \in Files
  PROVE  \/ disk'[f] = disk[f]
         \/ disk[f] = NoFile /\ disk'[f] = <<>>
         \/ \E w \in Writers :
              /\ pc[w] = "writing" /\ ~writers[job[w].band].failed
              /\ f = FileOf[job[w].band]
              /\ disk'[f] = Stored(w, TRUE)
<1>0. disk \in [Files -> Seq(Row) \cup {NoFile}]
  BY DEF IInv, TypeOK
<1>1. ASSUME NEW w \in Writers, Created(w) \/ CreateFailed(w)
      PROVE  disk'[f] = disk[f] \/ (disk[f] = NoFile /\ disk'[f] = <<>>)
  BY <1>0, <1>1 DEF Created, CreateFailed, Exists
<1>2. ASSUME NEW w \in Writers, FinishWrite(w)
      PROVE  \/ disk'[f] = disk[f]
             \/ /\ pc[w] = "writing" /\ ~writers[job[w].band].failed
                /\ f = FileOf[job[w].band]
                /\ disk'[f] = Stored(w, TRUE)
  <2> DEFINE b == job[w].band
             h == writers[b]
  <2>1. Written(w, b, h) \/ Spoilt(w, b, h) \/ UNCHANGED disk
    BY <1>2, FinishCases
  <2>2. pc[w] = "writing"
    BY <1>2 DEF FinishWrite
  <2> HIDE DEF b, h
  <2>3. \/ disk' = disk
        \/ ~h.failed /\ disk' = [disk EXCEPT ![FileOf[b]] = Stored(w, TRUE)]
    BY <2>1 DEF Written, Spoilt
  <2>4. disk'[f] = disk[f] \/ (~h.failed /\ f = FileOf[b] /\ disk'[f] = Stored(w, TRUE))
    BY <1>0, <2>3
  <2> QED
    BY <2>2, <2>4 DEF b, h
<1>3. ASSUME NEW w \in Writers,
             \/ Found(w) \/ Missing(w) \/ Unnameable(w) \/ StartCreate(w)
             \/ LockBand(w) \/ StartWrite(w) \/ \E b \in Bands : TakeJob(w, b)
      PROVE  disk' = disk
  BY <1>3 DEF Found, Missing, Unnameable, StartCreate, LockBand, StartWrite, TakeJob
<1>4. CASE Crash
  BY <1>4 DEF Crash
<1>5. CASE UNCHANGED vars
  BY <1>5 DEF vars
<1> QED
  BY <1>1, <1>2, <1>3, <1>4, <1>5 DEF Next, Step

LEMMA DiskRowsSoundStep == IInv /\ [Next]_vars => DiskRowsSound'
<1> SUFFICES ASSUME IInv, [Next]_vars, NEW f \in Files, disk'[f] # NoFile,
                    NEW i \in 1..Len(disk'[f])
             PROVE  /\ disk'[f][i].whole
                    /\ \A k \in 1..i : disk'[f][k].band = disk'[f][i].band
                    /\ \A k \in 1..(i-1) : disk'[f][k].nth < disk'[f][i].nth
  BY DEF DiskRowsSound
<1>1. CASE disk'[f] = disk[f]
  BY <1>1 DEF IInv, DiskRowsSound
<1>2. CASE disk'[f] = <<>>
  BY <1>2
<1>3. ASSUME NEW w \in Writers, pc[w] = "writing", ~writers[job[w].band].failed,
             disk'[f] = Stored(w, TRUE)
      PROVE  /\ disk'[f][i].whole
             /\ \A k \in 1..i : disk'[f][k].band = disk'[f][i].band
             /\ \A k \in 1..(i-1) : disk'[f][k].nth < disk'[f][i].nth
  <2> DEFINE b == job[w].band
             n == writers[b].rownum
             new == Stored(w, TRUE)
  <2>1. n \in Nat \ {0}
    BY <1>3, WritingFacts, HandleFacts
  <2>2. Len(new) = n
    BY <1>3, StoredFacts
  <2>3. /\ new[n].whole = TRUE
        /\ \A j \in 1..n :
             /\ new[j].band = b
             /\ j < n => new[j].whole
             /\ \A k \in 1..(j-1) : new[k].nth < new[j].nth
    BY <1>3, StoredWhole
  <2>4. disk'[f] = new
    BY <1>3
  <2> HIDE DEF new, n, b
  <2>5. i \in 1..n /\ (i = n \/ i < n) /\ \A k \in 1..i : k \in 1..n
    BY <2>1, <2>2, <2>4
  <2> QED
    BY <2>3, <2>4, <2>5
<1> QED
  BY <1>1, <1>2, <1>3, DiskCases

\* A file that exists keeps every row it has.
LEMMA DiskKeeps ==
  ASSUME IInv, [Next]_vars, NEW f \in Files, disk[f] # NoFile
  PROVE  /\ disk[f] \in Seq(Row) /\ disk'[f] \in Seq(Row) /\ disk'[f] # NoFile
         /\ Len(disk[f]) <= Len(disk'[f])
         /\ \A i \in 1..Len(disk[f]) : disk'[f][i] = disk[f][i]
<1>1. disk[f] \in Seq(Row)
  BY DEF IInv, TypeOK
<1>2. CASE disk'[f] = disk[f]
  BY <1>1, <1>2
<1>3. ASSUME NEW w \in Writers, pc[w] = "writing", ~writers[job[w].band].failed,
             f = FileOf[job[w].band], disk'[f] = Stored(w, TRUE)
      PROVE  /\ disk'[f] \in Seq(Row) /\ disk'[f] # NoFile
             /\ Len(disk[f]) <= Len(disk'[f])
             /\ \A i \in 1..Len(disk[f]) : disk'[f][i] = disk[f][i]
  <2> DEFINE h == writers[job[w].band]
             new == Stored(w, TRUE)
             d == disk[f]
  <2>1. h.rownum \in Nat \ {0} /\ DiskFollows(h, d)
    BY <1>3, WritingFacts, HandleFacts
  <2>2. /\ new \in Seq(Row) /\ Len(new) = h.rownum /\ Len(h.rows) = h.rownum - 1
        /\ \A i \in 1..(h.rownum - 1) : new[i] = h.rows[i]
    BY <1>3, StoredFacts
  <2>3. Len(d) \in Nat /\ disk'[f] = new
    BY <1>1, <1>3
  <2> HIDE DEF h, new, d
  <2>4. Len(d) <= h.rownum - 1 /\ \A i \in 1..Len(d) : d[i] = h.rows[i]
    BY <2>1, <2>2 DEF DiskFollows
  <2>5. \A i \in 1..Len(d) : i \in 1..(h.rownum - 1)
    BY <2>1, <2>3, <2>4
  <2>6. Len(d) <= Len(new) /\ \A i \in 1..Len(d) : new[i] = d[i]
    BY <2>1, <2>2, <2>3, <2>4, <2>5
  <2>7. new # NoFile
    BY <2>2, WritersAssumption
  <2> QED
    BY <2>2, <2>3, <2>6, <2>7 DEF d
<1> QED
  BY <1>1, <1>2, <1>3, DiskCases

\* It is only ever extended.
LEMMA ExtendsStep == IInv /\ [Next]_vars => \A f \in Files : Extends(disk'[f], disk[f])
<1> SUFFICES ASSUME IInv, [Next]_vars, NEW f \in Files, disk[f] # NoFile
             PROVE  Extends(disk'[f], disk[f])
  BY DEF Extends
<1> DEFINE d == disk[f]
           dd == disk'[f]
<1>1. /\ d \in Seq(Row) /\ dd \in Seq(Row) /\ dd # NoFile /\ Len(d) <= Len(dd)
      /\ \A i \in 1..Len(d) : dd[i] = d[i]
  BY DiskKeeps
<1> HIDE DEF d, dd
<1>2. /\ SubSeq(dd, 1, Len(d)) \in Seq(Row)
      /\ Len(SubSeq(dd, 1, Len(d))) = Len(d)
      /\ \A i \in 1..Len(d) : SubSeq(dd, 1, Len(d))[i] = dd[i]
  BY <1>1
<1>3. SubSeq(dd, 1, Len(d)) = d
  BY <1>1, <1>2, SeqEqual
<1>4. Len(dd) >= Len(d)
  BY <1>1
<1> QED
  BY <1>1, <1>3, <1>4 DEF Extends, d, dd

-----------------------------------------------------------------------------
(* What became of every result *)

\* A result that a reader finds stays one.
LEMMA OnDiskKept ==
  ASSUME IInv, [Next]_vars, NEW b \in Bands, NEW n \in 1..taken[b], taken'[b] \in Nat,
         taken[b] <= taken'[b], n \in OnDisk(b)
  PROVE  n \in OnDisk(b)'
<1> DEFINE f == FileOf[b]
<1>1. f \in Files /\ taken[b] \in Nat
  BY WritersAssumption DEF IInv, TypeOK
<1>2. /\ disk[f] # NoFile
      /\ \E i \in 1..Len(disk[f]) : disk[f][i].band = b /\ disk[f][i].nth = n /\ disk[f][i].whole
  BY DEF OnDisk, Exists
<1>3. PICK i \in 1..Len(disk[f]) : disk[f][i].band = b /\ disk[f][i].nth = n /\ disk[f][i].whole
  BY <1>2
<1>4. /\ disk'[f] # NoFile /\ disk'[f][i] = disk[f][i]
      /\ Len(disk[f]) \in Nat /\ Len(disk'[f]) \in Nat /\ Len(disk[f]) <= Len(disk'[f])
  BY <1>1, <1>2, DiskKeeps
<1>5. i \in 1..Len(disk'[f]) /\ n \in 1..taken'[b]
  BY <1>1, <1>4
<1> QED
  BY <1>3, <1>4, <1>5 DEF OnDisk, Exists

\* The rows of an open file keep their places.
LEMMA RowsKept ==
  ASSUME IInv, NEW w \in Writers, FinishWrite(w), NEW a \in Bands, writers[a] # NoHandle
  PROVE  /\ writers'[a] # NoHandle
         /\ \A i \in 1..Len(writers[a].rows) :
              /\ i \in 1..Len(writers'[a].rows)
              /\ writers'[a].rows[i] = writers[a].rows[i]
<1> DEFINE b == job[w].band
           h == writers[b]
<1>1. /\ b \in Bands /\ pc[w] = "writing"
      /\ writers \in [Bands -> Handle \cup {NoHandle}]
      /\ h \in Handle /\ h.rownum \in Nat \ {0}
  BY JobFacts, WritingFacts, HandleFacts DEF FinishWrite, IInv, TypeOK
<1>2. TypeOK'
  <2> [Next]_vars
    BY DEF Next, Step
  <2> QED
    BY TypeStep
<1>3. CASE a = b /\ ~h.failed
  <2>1. PICK whole \in BOOLEAN, rownum \in Nat \ {0}, failed \in BOOLEAN :
          writers' = [writers EXCEPT ![b] = [rownum |-> rownum, failed |-> failed,
                                             rows |-> Stored(w, whole)]]
        \/ writers' = writers
    <3>1. h.rownum + 1 \in Nat \ {0}
      BY <1>1
    <3> QED
      BY <1>1, <3>1, FinishCases DEF Written, Spoilt
  <2> DEFINE new == Stored(w, whole)
             hh == [rownum |-> rownum, failed |-> failed, rows |-> new]
  <2>2. /\ new \in Seq(Row) /\ Len(new) = h.rownum /\ Len(h.rows) = h.rownum - 1
        /\ \A i \in 1..(h.rownum - 1) : new[i] = h.rows[i]
    BY <1>1, <1>3, StoredFacts
  <2>3. hh # NoHandle
    BY <2>2, NewHandle, HandleFacts
  <2>4. writers'[a] = hh \/ writers'[a] = writers[a]
    BY <1>1, <1>3, <2>1
  <2>5. a = b
    BY <1>3
  <2>6. hh.rows = new
    OBVIOUS
  <2> HIDE DEF new, h, hh
  <2>7. \A i \in 1..Len(h.rows) : i \in 1..Len(new) /\ new[i] = h.rows[i]
    BY <1>1, <2>2
  <2> QED
    BY <2>3, <2>4, <2>5, <2>6, <2>7 DEF h
<1>4. CASE a # b \/ h.failed
  <2>1. writers'[a] = writers[a]
    BY <1>1, <1>4, FinishCases DEF Written, Spoilt
  <2> QED
    BY <2>1
<1> QED
  BY <1>3, <1>4

LEMMA AccountsStep == IInv /\ [Next]_vars => Accounts'
<1> SUFFICES ASSUME IInv, [Next]_vars, NEW b \in Bands
             PROVE  /\ lost'[b] \subseteq 1..taken'[b]
                    /\ \A n \in 1..taken'[b] :
                         n \in InHand(b)' \cup InFile(b)' \cup OnDisk(b)' \cup lost'[b]
  BY DEF Accounts, EveryResultAccounted, InHand, InFile, OnDisk
<1>0. TypeOK /\ Hands /\ OpenFiles /\ TypeOK'
  BY TypeStep DEF IInv
<1>1. /\ taken[b] \in Nat /\ lost[b] \subseteq 1..taken[b]
      /\ \A n \in 1..taken[b] : n \in InHand(b) \cup InFile(b) \cup OnDisk(b) \cup lost[b]
  BY <1>0 DEF TypeOK, IInv, Accounts, EveryResultAccounted
<1> DEFINE Goal == /\ lost'[b] \subseteq 1..taken'[b]
                   /\ \A n \in 1..taken'[b] :
                        n \in InHand(b)' \cup InFile(b)' \cup OnDisk(b)' \cup lost'[b]
<1>2. ASSUME NEW w \in Writers, NEW c \in Bands, TakeJob(w, c) PROVE Goal
  <2>1. /\ UNCHANGED <<writers, disk, lost>> /\ job[w] = NoJob
        /\ job' = [job EXCEPT ![w] = [band |-> c, nth |-> taken[c] + 1]]
        /\ taken' = [taken EXCEPT ![c] = @ + 1]
    BY <1>0, <1>2 DEF TakeJob, Hands
  <2>2. /\ taken'[b] \in Nat /\ taken[b] <= taken'[b]
        /\ taken'[b] = IF b = c THEN taken[b] + 1 ELSE taken[b]
    BY <1>0, <1>1, <2>1 DEF TypeOK
  <2>3. \A n \in 1..taken[b] : n \in 1..taken'[b]
    BY <1>1, <2>2
  <2>4. ASSUME NEW n \in 1..taken[b]
        PROVE  n \in InHand(b)' \cup InFile(b)' \cup OnDisk(b)' \cup lost'[b]
    <3>1. CASE n \in InHand(b)
      <4>1. PICK v \in Writers : job[v] = [band |-> b, nth |-> n]
        BY <3>1 DEF InHand
      <4>2. [band |-> b, nth |-> n] # NoJob
        BY WritersAssumption DEF Job
      <4>3. job'[v] = job[v]
        BY <1>0, <2>1, <4>1, <4>2 DEF TypeOK
      <4> QED
        BY <2>3, <4>1, <4>3 DEF InHand
    <3>2. CASE n \in InFile(b)
      BY <2>1, <2>3, <3>2 DEF InFile
    <3>3. CASE n \in OnDisk(b)
      BY <2>2, <3>3, OnDiskKept
    <3> QED
      BY <1>1, <2>1, <3>1, <3>2, <3>3
  <2>5. b = c => taken[b] + 1 \in InHand(b)'
    BY <1>0, <1>1, <2>1, <2>2 DEF InHand, TypeOK
  <2>6. \A n \in 1..taken'[b] : n \in 1..taken[b] \/ (b = c /\ n = taken[b] + 1)
    BY <1>1, <2>2
  <2> QED
    BY <1>1, <2>1, <2>3, <2>4, <2>5, <2>6
<1>3. ASSUME NEW w \in Writers,
             Found(w) \/ Missing(w) \/ StartCreate(w) \/ LockBand(w) \/ StartWrite(w)
      PROVE  Goal
  <2>1. UNCHANGED <<job, writers, disk, taken, lost>>
    BY <1>3 DEF Found, Missing, StartCreate, LockBand, StartWrite, history
  <2> QED
    BY <1>1, <2>1 DEF InHand, InFile, OnDisk, Exists
<1>4. ASSUME NEW w \in Writers, Unnameable(w) \/ Created(w) \/ CreateFailed(w) \/ FinishWrite(w)
      PROVE  Goal
  <2> DEFINE r == job[w]
  <2>1. /\ pc[w] # "idle" /\ r \in Job /\ r.band \in Bands /\ r.nth = taken[r.band]
        /\ taken' = taken
    BY <1>0, <1>4, JobFacts DEF Unnameable, Created, CreateFailed, FinishWrite, history
  <2>2. /\ \A v \in Writers : v # w => job'[v] = job[v]
        /\ \/ job' = job /\ lost' = lost
           \/ GiveUp(w)
           \/ FinishWrite(w) /\ Written(w, r.band, writers[r.band])
    BY <1>0, <1>4, FinishCases
       DEF Unnameable, Created, CreateFailed, FinishWrite, Return, Spoilt, history, TypeOK
  <2>3. lost'[b] \subseteq 1..taken'[b] /\ lost[b] \subseteq lost'[b]
    <3>1. CASE GiveUp(w)
      BY <1>0, <1>1, <2>1, <3>1, GiveUpFacts, JobFacts
    <3>2. CASE lost' = lost
      BY <1>1, <2>1, <3>2
    <3> QED
      BY <2>2, <3>1, <3>2 DEF Written
  <2>4. ASSUME NEW n \in 1..taken[b]
        PROVE  n \in InHand(b)' \cup InFile(b)' \cup OnDisk(b)' \cup lost'[b]
    <3>1. CASE n \in InHand(b)
      <4>1. PICK v \in Writers : job[v] = [band |-> b, nth |-> n]
        BY <3>1 DEF InHand
      <4>2. CASE v # w \/ job' = job
        BY <2>1, <2>2, <4>1, <4>2 DEF InHand
      <4>3. CASE v = w /\ GiveUp(w)
        <5>1. r.band = b /\ r.nth = n
          BY <4>1, <4>3
        <5> QED
          BY <1>0, <2>1, <4>3, <5>1, GiveUpFacts
      <4>4. CASE v = w /\ FinishWrite(w) /\ Written(w, r.band, writers[r.band])
        <5> DEFINE h == writers[b]
                   new == Stored(w, TRUE)
        <5>1. r.band = b /\ r.nth = n /\ pc[w] = "writing" /\ ~h.failed
          BY <4>1, <4>4 DEF FinishWrite, Written
        <5>2. h \in Handle /\ h.rownum \in Nat \ {0}
          BY <5>1, WritingFacts, HandleFacts
        <5>3. /\ Len(new) = h.rownum /\ new \in Seq(Row)
              /\ new[h.rownum] = [band |-> b, nth |-> n, whole |-> TRUE]
          BY <5>1, StoredFacts
        <5>4. writers'[b] = [rownum |-> h.rownum + 1, failed |-> FALSE, rows |-> new]
          BY <1>0, <4>4, <5>1 DEF Written, TypeOK
        <5>5. writers'[b] # NoHandle
          <6>1. writers[b] # NoHandle
            BY <5>2, HandleFacts
          <6> QED
            BY <4>4, <6>1, RowsKept
        <5> HIDE DEF h, new
        <5>6. h.rownum \in 1..Len(new) /\ writers'[b].rows = new
          BY <5>2, <5>3, <5>4
        <5> QED
          BY <2>1, <5>3, <5>5, <5>6 DEF InFile
      <4> QED
        BY <2>2, <4>2, <4>3, <4>4
    <3>2. CASE n \in InFile(b)
      <4>1. writers[b] # NoHandle
        BY <3>2 DEF InFile
      <4>2. PICK i \in 1..Len(writers[b].rows) :
              writers[b].rows[i] = [band |-> b, nth |-> n, whole |-> TRUE]
        BY <3>2 DEF InFile
      <4>3. /\ writers'[b] # NoHandle /\ i \in 1..Len(writers'[b].rows)
            /\ writers'[b].rows[i] = writers[b].rows[i]
        <5>1. CASE FinishWrite(w)
          BY <4>1, <4>2, <5>1, RowsKept
        <5>2. CASE Created(w)
          <6>1. writers[r.band] = NoHandle
            BY <1>0, <5>2 DEF Created, Hands
          <6>2. writers'[b] = writers[b]
            BY <1>0, <4>1, <5>2, <6>1 DEF Created, TypeOK
          <6> QED
            BY <4>1, <4>2, <6>2
        <5>3. CASE Unnameable(w) \/ CreateFailed(w)
          BY <4>1, <4>2, <5>3 DEF Unnameable, CreateFailed
        <5> QED
          BY <1>4, <5>1, <5>2, <5>3
      <4> QED
        BY <2>1, <4>2, <4>3 DEF InFile
    <3>3. CASE n \in OnDisk(b)
      BY <1>1, <2>1, <3>3, OnDiskKept
    <3> QED
      BY <1>1, <2>3, <3>1, <3>2, <3>3
  <2> QED
    BY <2>1, <2>3, <2>4
<1>5. CASE Crash
  <2>1. /\ UNCHANGED <<disk, taken>>
        /\ lost'[b] = lost[b] \cup ((1..taken[b]) \ OnDisk(b))
    BY <1>5 DEF Crash
  <2>2. OnDisk(b)' = OnDisk(b)
    BY <2>1 DEF OnDisk, Exists
  <2> QED
    BY <1>1, <2>1, <2>2
<1>6. CASE UNCHANGED vars
  <2>1. UNCHANGED <<job, writers, disk, taken, lost>>
    BY <1>6 DEF vars, threads, history
  <2> QED
    BY <1>1, <2>1 DEF InHand, InFile, OnDisk, Exists
<1> QED
  BY <1>2, <1>3, <1>4, <1>5, <1>6 DEF Next, Step

-----------------------------------------------------------------------------
LEMMA NextInv == IInv /\ [Next]_vars => IInv'
BY TypeStep, OwnersStep, HandsStep, OpenFilesStep, OneBandPerFileStep, DiskRowsSoundStep,
   AccountsStep DEF IInv

LEMMA Invariance == Safety => []IInv
<1>1. Init => IInv
  BY InitInv
<1>2. IInv /\ [Next]_vars => IInv'
  BY NextInv
<1> QED
  BY <1>1, <1>2, PTL DEF Safety

LEMMA SpecInvariance == Spec => []IInv
<1>1. Spec => Safety
  BY PTL DEF Spec
<1> QED
  BY <1>1, Invariance, PTL

\* Every variable keeps its type: in particular rownum stays positive and the
\* rows of a file stay rows, whatever fails.
THEOREM WritersTypeCorrect == Spec => []TypeOK
<1>1. IInv => TypeOK
  BY DEF IInv
<1> QED
  BY <1>1, SpecInvariance, PTL

\* A CFITSIO that is not reentrant has one thread in it at most: cfitsio_mutex
\* alone decides, whichever mutex the caller of create or write already holds.
THEOREM CfitsioOneAtATime == Spec => []CfitsioExclusive
<1>1. ASSUME IInv, ~reentrant PROVE Cardinality(InCfitsio) <= 1
  <2>1. \A w \in InCfitsio : w = cfitsioOwner
    BY <1>1 DEF IInv, Owners, InCfitsio
  <2>2. CASE InCfitsio = {}
    BY <2>2, FS_EmptySet
  <2>3. CASE InCfitsio # {}
    <3>1. InCfitsio = {cfitsioOwner}
      BY <2>1, <2>3
    <3> QED
      BY <3>1, FS_Singleton
  <2> QED
    BY <2>2, <2>3
<1>2. IInv => CfitsioExclusive
  BY <1>1 DEF CfitsioExclusive
<1> QED
  BY <1>2, SpecInvariance, PTL

\* Bands whose frequencies round to one file name never have it open together:
\* sdfits_create refuses the second, and one Writer serves them both.
THEOREM FilesNotShared == Spec => []OneBandPerFile
<1>1. IInv => OneBandPerFile
  BY DEF IInv
<1> QED
  BY <1>1, SpecInvariance, PTL

\* What a reader finds are whole rows of one band, in the order its results came:
\* the sticky status keeps a row with a missing column behind the last flush.
THEOREM ReaderFindsSoundRows == Spec => []DiskRowsSound
<1>1. IInv => DiskRowsSound
  BY DEF IInv
<1> QED
  BY <1>1, SpecInvariance, PTL

\* Fewer rows than the period of the flushes are at risk, also of a file that failed.
THEOREM FewRowsAtRisk == Spec => []AtRiskBounded
<1>1. ASSUME IInv, NEW b \in Bands, writers[b] # NoHandle
      PROVE  writers[b].rownum - 1 - Len(disk[FileOf[b]]) < FlushRows
  <2>1. writers[b].rownum \in Nat \ {0} /\ writers[b].failed \in BOOLEAN
    BY <1>1, OpenFacts DEF IInv
  <2>2. RowsSound(b, writers[b]) /\ DiskFollows(writers[b], disk[FileOf[b]])
    BY <1>1 DEF IInv, OpenFiles
  <2>3. disk[FileOf[b]] \in Seq(Row)
    <3>1. FileOf[b] \in Files /\ disk \in [Files -> Seq(Row) \cup {NoFile}]
      BY <1>1, WritersAssumption DEF IInv, TypeOK
    <3>2. disk[FileOf[b]] # NoFile
      BY <2>2 DEF DiskFollows
    <3> QED
      BY <3>1, <3>2
  <2> DEFINE d == disk[FileOf[b]]
             h == writers[b]
  <2>4. Len(d) \in Nat
    BY <2>3
  <2> HIDE DEF d, h
  <2>5. CASE h.failed
    BY <2>2, <2>5 DEF DiskFollows, d, h
  <2>6. CASE ~h.failed
    <3>1. Len(d) <= h.rownum - 1 /\ h.rownum - 1 - Len(d) = (h.rownum - 1) % FlushRows
      BY <2>2, <2>6 DEF DiskFollows, RowsSound, d, h
    <3> QED
      BY <2>1, <2>4, <3>1, FlushFollows DEF d, h
  <2> QED
    BY <2>5, <2>6 DEF d, h
<1>2. IInv => AtRiskBounded
  BY <1>1 DEF AtRiskBounded
<1> QED
  BY <1>2, SpecInvariance, PTL

\* Every result a Writer took is a whole row of its band's file, or was given up
\* with a message or in a crash, or is in its Writer's hands: none gets lost in
\* silence on any of write_spectrum_frame's returns.
THEOREM NoResultForgotten == Spec => []EveryResultAccounted
<1>1. IInv => EveryResultAccounted
  BY DEF IInv, Accounts
<1> QED
  BY <1>1, SpecInvariance, PTL

\* What a reader found in a file he finds again, at the same place, after any
\* write, failure, crash or restart.
THEOREM FilesNeverShrink == Spec => FilesOnlyGrow
<1>1. IInv /\ [Next]_vars => [\A f \in Files : Extends(disk'[f], disk[f])]_vars
  BY ExtendsStep
<1>2. Spec => [][Next]_vars
  BY PTL DEF Spec, Safety
<1> QED
  BY <1>1, <1>2, SpecInvariance, PTL DEF FilesOnlyGrow

=============================================================================
