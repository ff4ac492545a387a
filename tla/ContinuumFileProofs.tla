------------------------- MODULE ContinuumFileProofs -------------------------
(***************************************************************************)
(* The rows of the continuum file for any number of integrations and       *)
(* crashes, whatever file operations fail.                                 *)
(***************************************************************************)
EXTENDS ContinuumFile, TLAPS

\* What is visible is a first part of what CFITSIO was given.
DiskBehindTable ==
  /\ disk \in Seq(Row)
  /\ Len(disk) <= Len(table)
  /\ \A i \in 1..Len(disk) : disk[i] = table[i]

\* The whole rows are of integrations of this run, in order.
TableInOrder ==
  \A i \in 1..Len(table) : table[i].whole =>
    /\ table[i].nth > origin /\ table[i].nth <= completed
    /\ \A k \in 1..(i-1) : table[k].whole => table[k].nth < table[i].nth

\* A run completes nothing before it has its file.
NothingYet == worker # "running" => origin = completed

IInv ==
  /\ TypeOK
  /\ NothingYet
  /\ worker = "running" => DiskBehindTable /\ TableInOrder /\ AcceptedOnDisk

-----------------------------------------------------------------------------
LEMMA InitInv == Init => IInv
BY FileAssumption DEF Init, IInv, TypeOK, NothingYet

LEMMA EmptyTable == <<>> \in Seq(Row) /\ Len(<<>>) = 0
OBVIOUS

LEMMA TableRows ==
  ASSUME TypeOK
  PROVE  \A i \in 1..Len(table) : table[i] \in Row /\ table[i].nth \in Nat
<1>1. \A i \in 1..Len(table) : table[i] \in Row
  BY DEF TypeOK
<1>2. \A r \in Row : r.nth \in Nat
  BY DEF Row
<1> QED
  BY <1>1, <1>2

(***************************************************************************)
(* A row is put behind all others: m_row has counted every one of them, so *)
(* none is overwritten, and rows that were skipped stay holes.             *)
(***************************************************************************)
LEMMA PutRowFacts ==
  ASSUME TypeOK, NEW whole \in BOOLEAN
  PROVE  /\ PutRow(whole) \in Seq(Row)
         /\ Len(PutRow(whole)) = row + 1
         /\ \A i \in 1..Len(table) : PutRow(whole)[i] = table[i]
         /\ \A i \in (Len(table) + 1)..row : PutRow(whole)[i] = [nth |-> 0, whole |-> FALSE]
         /\ PutRow(whole)[row + 1] = [nth |-> completed + 1, whole |-> whole]
<1>1. /\ row \in Nat /\ completed \in Nat /\ table \in Seq(Row) /\ Len(table) \in Nat
      /\ Len(table) <= row
  BY DEF TypeOK
<1> DEFINE last == IF row + 1 > Len(table) THEN row + 1 ELSE Len(table)
           put(i) == IF i = row + 1 THEN [nth |-> completed + 1, whole |-> whole]
                     ELSE IF i <= Len(table) THEN table[i] ELSE [nth |-> 0, whole |-> FALSE]
<1>2. last = row + 1
  BY <1>1
<1>3. PutRow(whole) = [i \in 1..last |-> put(i)]
  BY DEF PutRow
<1>4. \A i \in 1..last : put(i) \in Row
  <2>1. [nth |-> completed + 1, whole |-> whole] \in Row /\ [nth |-> 0, whole |-> FALSE] \in Row
    BY <1>1 DEF Row
  <2> QED
    BY <1>1, <1>2, <2>1, TableRows
<1> HIDE DEF last
<1>5. PutRow(whole) \in Seq(Row) /\ Len(PutRow(whole)) = row + 1
  BY <1>1, <1>2, <1>3, <1>4
<1>6. \A i \in 1..(row + 1) : PutRow(whole)[i] = put(i)
  BY <1>2, <1>3
<1>7. \A i \in 1..Len(table) : PutRow(whole)[i] = table[i]
  BY <1>1, <1>6
<1>8. \A i \in (Len(table) + 1)..row : PutRow(whole)[i] = [nth |-> 0, whole |-> FALSE]
  BY <1>1, <1>6
<1>9. PutRow(whole)[row + 1] = [nth |-> completed + 1, whole |-> whole]
  BY <1>1, <1>6
<1> QED
  BY <1>5, <1>7, <1>8, <1>9

\* The order of the rows outlives a row of the integration in hand.
LEMMA PutRowInOrder ==
  ASSUME TypeOK, TableInOrder, NEW whole \in BOOLEAN,
         table' = PutRow(whole), completed' = completed + 1, origin' = origin
  PROVE  TableInOrder'
<1>1. /\ row \in Nat /\ completed \in Nat /\ origin \in 0..completed
      /\ table \in Seq(Row) /\ Len(table) \in Nat /\ Len(table) <= row
  BY DEF TypeOK
<1>2. /\ Len(table') = row + 1
      /\ \A i \in 1..Len(table) : table'[i] = table[i]
      /\ \A i \in (Len(table) + 1)..row : ~table'[i].whole
      /\ table'[row + 1].nth = completed + 1
  <2>1. /\ \A i \in (Len(table) + 1)..row : table'[i] = [nth |-> 0, whole |-> FALSE]
        /\ table'[row + 1] = [nth |-> completed + 1, whole |-> whole]
    BY PutRowFacts
  <2>2. Len(table') = row + 1 /\ \A i \in 1..Len(table) : table'[i] = table[i]
    BY PutRowFacts
  <2> QED
    BY <2>1, <2>2
<1>3. \A i \in 1..Len(table) : table[i].nth \in Nat
  BY TableRows
<1> SUFFICES ASSUME NEW i \in 1..Len(table'), table'[i].whole
             PROVE  /\ table'[i].nth > origin /\ table'[i].nth <= completed + 1
                    /\ \A k \in 1..(i-1) : table'[k].whole => table'[k].nth < table'[i].nth
  BY DEF TableInOrder
<1>4. CASE i \in 1..Len(table)
  BY <1>1, <1>2, <1>3, <1>4, SMTT(30) DEF TableInOrder
<1>5. CASE i = row + 1
  <2>1. \A k \in 1..(i-1) : table'[k].whole => k \in 1..Len(table) /\ table'[k] = table[k]
    BY <1>1, <1>2, <1>5
  <2> QED
    BY <1>1, <1>2, <1>3, <1>5, <2>1 DEF TableInOrder
<1> QED
  BY <1>1, <1>2, <1>4, <1>5

-----------------------------------------------------------------------------
LEMMA NextInv == IInv /\ [Next]_vars => IInv'
<1> SUFFICES ASSUME IInv, [Next]_vars PROVE IInv'
  OBVIOUS
<1> USE FileAssumption DEF IInv
<1>1. CASE Create
  BY <1>1, EmptyTable DEF Create, TypeOK, NothingYet, DiskBehindTable, TableInOrder, AcceptedOnDisk
<1>2. CASE CreateFails
  BY <1>2, EmptyTable DEF CreateFails, TypeOK, NothingYet
<1>3. CASE Write
  <2>1. /\ worker = "running" /\ worker' = "running"
        /\ completed' = completed + 1 /\ origin' = origin /\ crashes' = crashes
        /\ completed \in Nat /\ row \in Nat /\ Len(table) \in Nat
        /\ accepted \in SUBSET (1..completed) /\ origin \in 0..completed
        /\ NothingYet'
    BY <1>3 DEF Write, TypeOK, NothingYet
  <2>2. CASE HeaderFails \/ WrongHdu
    <3>1. /\ row' \in {row, row + 1} /\ hdu' \in {"primary", "table"}
          /\ UNCHANGED <<table, disk, accepted>>
      BY <2>2 DEF HeaderFails, WrongHdu, TypeOK
    <3>2. TypeOK'
      BY <2>1, <3>1 DEF TypeOK
    <3>3. DiskBehindTable' /\ AcceptedOnDisk'
      BY <2>1, <3>1 DEF DiskBehindTable, AcceptedOnDisk, OnDisk
    <3>4. TableInOrder'
      <4>1. \A i \in 1..Len(table) : table[i].nth \in Nat
        BY TableRows
      <4> QED
        BY <2>1, <3>1, <4>1 DEF TableInOrder
    <3> QED
      BY <2>1, <3>2, <3>3, <3>4
  <2>3. CASE ColumnFails \/ FlushFails \/ RowWritten
    <3>1. /\ row' = row + 1 /\ hdu' = hdu
          /\ \/ table' = table /\ disk' = disk /\ accepted' = accepted
             \/ \E whole \in BOOLEAN :
                  /\ table' = PutRow(whole)
                  /\ disk' \in {disk, table'}
                  /\ \/ accepted' = accepted
                     \/ accepted' = accepted \cup {completed + 1} /\ whole /\ disk' = table'
      BY <2>3 DEF ColumnFails, FlushFails, RowWritten
    <3>2. CASE table' = table /\ disk' = disk /\ accepted' = accepted
      <4>1. \A i \in 1..Len(table) : table[i].nth \in Nat
        BY TableRows
      <4>2. TypeOK'
        BY <2>1, <3>1, <3>2 DEF TypeOK
      <4>3. DiskBehindTable' /\ AcceptedOnDisk'
        BY <2>1, <3>2 DEF DiskBehindTable, AcceptedOnDisk, OnDisk
      <4>4. TableInOrder'
        BY <2>1, <3>2, <4>1 DEF TableInOrder
      <4> QED
        BY <2>1, <4>2, <4>3, <4>4
    <3>3. ASSUME NEW whole \in BOOLEAN,
                 table' = PutRow(whole),
                 disk' \in {disk, table'},
                 \/ accepted' = accepted
                 \/ accepted' = accepted \cup {completed + 1} /\ whole /\ disk' = table'
          PROVE  IInv'
      <4>1. /\ table' \in Seq(Row) /\ Len(table') = row + 1
            /\ \A i \in 1..Len(table) : table'[i] = table[i]
            /\ table'[row + 1] = [nth |-> completed + 1, whole |-> whole]
        BY <3>3, PutRowFacts
      <4>2. TypeOK'
        <5>1. accepted' \in SUBSET (1..completed')
          <6>1. (1..completed) \cup {completed + 1} \subseteq 1..completed'
            BY <2>1
          <6> QED
            BY <2>1, <3>3, <6>1
        <5>2. disk' \in Seq(Row) \cup {NoFile}
          BY <3>3, <4>1 DEF TypeOK
        <5> QED
          BY <2>1, <3>1, <4>1, <5>1, <5>2 DEF TypeOK
      <4>3. Len(table) <= row /\ disk \in Seq(Row) /\ Len(disk) \in Nat /\ Len(disk) <= Len(table)
        BY <2>1 DEF TypeOK, DiskBehindTable
      <4>4. DiskBehindTable'
        BY <2>1, <3>3, <4>1, <4>3 DEF DiskBehindTable
      <4>5. TableInOrder'
        BY <2>1, <3>3, PutRowInOrder
      <4>6. \A n : OnDisk(n) => OnDisk(n)'
        BY <2>1, <3>3, <4>1, <4>3, <4>4 DEF OnDisk, DiskBehindTable
      <4>7. disk' = table' /\ whole => OnDisk(completed)'
        <5>1. row + 1 \in 1..(row + 1)
          BY <2>1
        <5>2. whole => [nth |-> completed + 1, whole |-> whole] = [nth |-> completed + 1, whole |-> TRUE]
          OBVIOUS
        <5>3. disk' # NoFile
          BY <4>4 DEF DiskBehindTable
        <5> QED
          BY <2>1, <4>1, <5>1, <5>2, <5>3 DEF OnDisk
      <4>8. AcceptedOnDisk'
        <5>1. \A n \in accepted : n > origin => OnDisk(n)'
          BY <2>1, <4>6 DEF AcceptedOnDisk
        <5> QED
          BY <2>1, <3>3, <4>7, <5>1 DEF AcceptedOnDisk
      <4> QED
        BY <2>1, <4>2, <4>4, <4>5, <4>8
    <3> QED
      BY <3>1, <3>2, <3>3
  <2> QED
    BY <1>3, <2>2, <2>3 DEF Write
<1>4. CASE Crash
  BY <1>4 DEF Crash, TypeOK, NothingYet
<1>5. CASE UNCHANGED vars
  BY <1>5 DEF vars, TypeOK, NothingYet, DiskBehindTable, TableInOrder, AcceptedOnDisk, OnDisk
<1> QED
  BY <1>1, <1>2, <1>3, <1>4, <1>5 DEF Next

LEMMA Invariance == Spec => []IInv
BY InitInv, NextInv, PTL DEF Spec

-----------------------------------------------------------------------------
(***************************************************************************)
(* The types of the file: no more rows than m_row has counted, nothing     *)
(* accepted that was not completed.                                        *)
(***************************************************************************)
THEOREM FileTypeCorrect == Spec => []TypeOK
<1>1. IInv => TypeOK
  BY DEF IInv
<1> QED
  BY <1>1, Invariance, PTL

(***************************************************************************)
(* What write() reported as written is in the file for as long as this     *)
(* process runs, whatever fails after it.                                  *)
(***************************************************************************)
THEOREM FileAcceptedOnDisk == Spec => []AcceptedOnDisk
<1>1. IInv => AcceptedOnDisk
  BY DEF IInv, AcceptedOnDisk
<1> QED
  BY <1>1, Invariance, PTL

(***************************************************************************)
(* Holes never shift or overwrite rows: the whole rows of the file are     *)
(* those of this run, in the order of their integrations.                  *)
(***************************************************************************)
THEOREM FileRowsInOrder == Spec => []RowsInOrder
<1>1. IInv => RowsInOrder
  <2> SUFFICES ASSUME IInv, worker = "running",
                      NEW i \in 1..Len(disk), NEW k \in 1..Len(disk),
                      disk[i].whole, disk[k].whole
               PROVE  disk[i].nth > origin /\ (i < k => disk[i].nth < disk[k].nth)
    BY DEF RowsInOrder
  <2>1. /\ i \in 1..Len(table) /\ k \in 1..Len(table)
        /\ disk[i] = table[i] /\ disk[k] = table[k]
    BY DEF IInv, TypeOK, DiskBehindTable
  <2>2. i < k => i \in 1..(k-1)
    BY <2>1
  <2> QED
    BY <2>1, <2>2 DEF IInv, TableInOrder
<1> QED
  BY <1>1, Invariance, PTL

=============================================================================
