---------------------- MODULE SpectrumWriteQueueProofs ----------------------
(***************************************************************************)
(* The safety properties of SpectrumWriteQueue for every number of         *)
(* receivers, every set of payload sizes and every queue capacity.         *)
(***************************************************************************)
EXTENDS SpectrumWriteQueue, TLAPS

\* The inductive invariant.  BytesAccounted carries BytesBounded: no bound on
\* queuedBytes survives Take unless it is known to cover the job taken.
IInv == TypeOK /\ BytesAccounted /\ NothingLost /\ NoLostWakeup

\* A queued job is a job, and a job is never NoJob.
LEMMA JobFacts ==
  ASSUME NEW j \in Job
  PROVE  /\ j.ticket \in 1..MaxResults
         /\ j.bytes \in PayloadBytes
         /\ j.bytes \in 1..QueueBytes
         /\ j # NoJob
<1>1. j.ticket \in 1..MaxResults /\ j.bytes \in PayloadBytes /\ j # NoJob
  BY QueueAssumption DEF Job
<1> QED
  BY <1>1, QueueAssumption

LEMMA InitInv == Init => IInv
<1> SUFFICES ASSUME Init PROVE IInv
  OBVIOUS
<1> USE QueueAssumption DEF Init
<1>1. TypeOK
  BY DEF TypeOK
<1>2. BytesAccounted
  <2> DEFINE zero == [i \in 0..Len(jobs) |-> 0]
  <2>1. zero \in [0..Len(jobs) -> 0..QueueBytes]
    OBVIOUS
  <2>2. RunningTotals(zero)
    BY DEF RunningTotals
  <2> QED
    BY <2>1, <2>2 DEF BytesAccounted
<1>3. NothingLost /\ NoLostWakeup
  BY DEF NothingLost, NoLostWakeup
<1> QED
  BY <1>1, <1>2, <1>3 DEF IInv

\* A step that leaves the queue and its byte count alone keeps the totals.
LEMMA TotalsUnchanged ==
  ASSUME BytesAccounted, UNCHANGED <<jobs, queuedBytes>>
  PROVE  BytesAccounted'
BY DEF BytesAccounted, RunningTotals

\* The totals of a longer queue end with one more sum.
LEMMA TotalsAfterAdmit ==
  ASSUME TypeOK, BytesAccounted,
         NEW r \in Receivers, NEW bytes \in PayloadBytes, Admit(r, bytes)
  PROVE  BytesAccounted'
<1> USE QueueAssumption
<1>1. PICK total \in [0..Len(jobs) -> 0..QueueBytes] : RunningTotals(total)
  BY DEF BytesAccounted
<1> DEFINE more == [i \in 0..(Len(jobs) + 1) |->
                      IF i <= Len(jobs) THEN total[i] ELSE queuedBytes + bytes]
<1>2. /\ jobs \in Seq(Job)
      /\ Len(jobs) \in Nat
      /\ bytes \in 1..QueueBytes
  BY DEF TypeOK
<1>3. /\ Len(jobs') = Len(jobs) + 1
      /\ \A i \in 1..Len(jobs) : jobs'[i] = jobs[i]
      /\ jobs'[Len(jobs) + 1].bytes = bytes
  BY <1>2 DEF Admit
<1>4. queuedBytes \in 0..QueueBytes /\ queuedBytes' = queuedBytes + bytes
  BY <1>1, <1>2 DEF RunningTotals, Admit
<1>5. queuedBytes' <= QueueBytes
  <2>1. CASE jobs = <<>>
    BY <1>1, <1>2, <1>4, <2>1 DEF RunningTotals
  <2>2. CASE jobs # <<>>
    BY <1>2, <1>4, <2>2 DEF Admit, Full
  <2> QED
    BY <2>1, <2>2
<1>6. more \in [0..Len(jobs') -> 0..QueueBytes]
  BY <1>2, <1>3, <1>4, <1>5
<1>7. /\ more[0] = 0
      /\ \A i \in 1..Len(jobs') : more[i] = more[i-1] + jobs'[i].bytes
      /\ \A i, k \in 0..Len(jobs') : i <= k => more[i] <= more[k]
      /\ more[Len(jobs')] = queuedBytes'
  <2>1. \A i \in 0..Len(jobs) : more[i] = total[i] /\ total[i] <= queuedBytes
    BY <1>1, <1>2 DEF RunningTotals
  <2>2. more[Len(jobs) + 1] = queuedBytes'
    BY <1>2, <1>4
  <2>3. more[0] = 0
    BY <1>1, <1>2, <2>1 DEF RunningTotals
  <2>4. \A i \in 1..Len(jobs') : more[i] = more[i-1] + jobs'[i].bytes
    <3> SUFFICES ASSUME NEW i \in 1..Len(jobs')
                 PROVE  more[i] = more[i-1] + jobs'[i].bytes
      OBVIOUS
    <3>1. CASE i <= Len(jobs)
      <4>1. i \in 1..Len(jobs) /\ i - 1 \in 0..Len(jobs)
        BY <1>2, <1>3, <3>1
      <4>2. total[i] = total[i-1] + jobs[i].bytes
        BY <1>1, <4>1 DEF RunningTotals
      <4>3. more[i] = total[i] /\ more[i-1] = total[i-1]
        BY <1>2, <2>1, <4>1
      <4> HIDE DEF more
      <4> QED
        BY <1>3, <4>1, <4>2, <4>3
    <3>2. CASE i = Len(jobs) + 1
      BY <1>1, <1>2, <1>3, <1>4, <2>1, <2>2, <3>2 DEF RunningTotals
    <3> QED
      BY <1>2, <1>3, <3>1, <3>2
  <2>5. \A i, k \in 0..Len(jobs') : i <= k => more[i] <= more[k]
    <3> SUFFICES ASSUME NEW i \in 0..Len(jobs'), NEW k \in 0..Len(jobs'), i <= k
                 PROVE  more[i] <= more[k]
      OBVIOUS
    <3>1. CASE k <= Len(jobs)
      BY <1>1, <1>2, <2>1, <3>1 DEF RunningTotals
    <3>2. CASE k = Len(jobs) + 1
      <4>1. more[k] = queuedBytes + bytes
        BY <1>2, <3>2
      <4>2. CASE i = k
        <5>1. more[i] = more[k]
          BY <4>2
        <5> HIDE DEF more
        <5> QED
          BY <1>2, <1>4, <4>1, <5>1
      <4>3. CASE i <= Len(jobs)
        <5>1. i \in 0..Len(jobs)
          BY <1>2, <1>3, <4>3
        <5>2. total[i] \in 0..QueueBytes
          BY <5>1
        <5> HIDE DEF more
        <5>3. more[i] = total[i] /\ total[i] <= queuedBytes
          BY <2>1, <5>1
        <5> QED
          BY <1>2, <1>4, <4>1, <5>2, <5>3
      <4> QED
        BY <1>2, <1>3, <3>2, <4>2, <4>3
    <3> QED
      BY <1>2, <1>3, <3>1, <3>2
  <2> QED
    BY <1>3, <2>2, <2>3, <2>4, <2>5
<1> HIDE DEF more
<1> QED
  BY <1>6, <1>7 DEF BytesAccounted, RunningTotals

\* The totals of the remaining queue no longer count the job taken.
LEMMA TotalsAfterTake ==
  ASSUME TypeOK, BytesAccounted, Take
  PROVE  BytesAccounted'
<1> USE QueueAssumption
<1>1. PICK total \in [0..Len(jobs) -> 0..QueueBytes] : RunningTotals(total)
  BY DEF BytesAccounted
<1> DEFINE less == [i \in 0..(Len(jobs) - 1) |-> total[i + 1] - total[1]]
<1>2. /\ jobs \in Seq(Job)
      /\ jobs # <<>>
      /\ Len(jobs) \in Nat \ {0}
  BY DEF TypeOK, Take
<1>3. /\ Len(jobs') = Len(jobs) - 1
      /\ \A i \in 1..Len(jobs') : jobs'[i] = jobs[i + 1]
      /\ Head(jobs) = jobs[1]
  BY <1>2 DEF Take
<1>4. /\ total[0] = 0
      /\ total[1] = jobs[1].bytes
      /\ total[Len(jobs)] = queuedBytes
      /\ \A i \in 1..Len(jobs) : /\ total[i] \in 0..QueueBytes
                                 /\ total[1] <= total[i]
  <2>1. jobs[1] \in Job
    BY <1>2
  <2>2. jobs[1].bytes \in 1..QueueBytes
    BY <2>1, JobFacts
  <2>3. total[1] = total[0] + jobs[1].bytes
    BY <1>1, <1>2 DEF RunningTotals
  <2>4. total[0] = 0 /\ total[Len(jobs)] = queuedBytes
    BY <1>1 DEF RunningTotals
  <2>5. ASSUME NEW i \in 1..Len(jobs)
        PROVE  total[i] \in 0..QueueBytes /\ total[1] <= total[i]
    <3>1. 1 \in 0..Len(jobs) /\ i \in 0..Len(jobs) /\ 1 <= i
      BY <1>2
    <3> QED
      BY <1>1, <3>1 DEF RunningTotals
  <2> QED
    BY <2>2, <2>3, <2>4, <2>5
<1>5. queuedBytes' = queuedBytes - total[1]
  BY <1>3, <1>4 DEF Take
<1>6. less \in [0..Len(jobs') -> 0..QueueBytes]
  BY <1>2, <1>3, <1>4
<1>7. /\ less[0] = 0
      /\ \A i \in 1..Len(jobs') : less[i] = less[i-1] + jobs'[i].bytes
      /\ \A i, k \in 0..Len(jobs') : i <= k => less[i] <= less[k]
      /\ less[Len(jobs')] = queuedBytes'
  <2>1. less[0] = 0 /\ less[Len(jobs')] = queuedBytes'
    BY <1>2, <1>3, <1>4, <1>5
  <2>2. \A i \in 1..Len(jobs') : less[i] = less[i-1] + jobs'[i].bytes
    <3> SUFFICES ASSUME NEW i \in 1..Len(jobs')
                 PROVE  less[i] = less[i-1] + jobs'[i].bytes
      OBVIOUS
    <3>1. total[i + 1] = total[i] + jobs[i + 1].bytes
      BY <1>1, <1>2, <1>3 DEF RunningTotals
    <3>2. jobs[i + 1] \in Job
      BY <1>2, <1>3
    <3>3. jobs[i + 1].bytes \in 1..QueueBytes
      BY <3>2, JobFacts
    <3> QED
      BY <1>2, <1>3, <1>4, <3>1, <3>3, SMTT(30)
  <2>3. \A i, k \in 0..Len(jobs') : i <= k => less[i] <= less[k]
    BY <1>1, <1>2, <1>3, <1>4 DEF RunningTotals
  <2> QED
    BY <2>1, <2>2, <2>3
<1> HIDE DEF less
<1> QED
  BY <1>6, <1>7 DEF BytesAccounted, RunningTotals

LEMMA NextInv == IInv /\ [Next]_vars => IInv'
<1> SUFFICES ASSUME IInv, [Next]_vars PROVE IInv'
  OBVIOUS
<1> USE QueueAssumption DEF IInv
<1>0. /\ jobs \in Seq(Job)
      /\ Len(jobs) \in Nat
  BY DEF TypeOK
<1>1. ASSUME NEW r \in Receivers, NEW bytes \in PayloadBytes, Admit(r, bytes)
      PROVE  IInv'
  <2>1. [ticket |-> admitted + 1, bytes |-> bytes] \in Job
    BY <1>1 DEF TypeOK, Admit, Offer, Job
  <2>2. TypeOK'
    BY <1>1, <2>1 DEF TypeOK, Admit, Offer
  <2>3. BytesAccounted'
    BY <1>1, TotalsAfterAdmit
  <2>4. NothingLost'
    <3>1. /\ Len(jobs') = Len(jobs) + 1
          /\ \A i \in 1..Len(jobs) : jobs'[i] = jobs[i]
          /\ jobs'[Len(jobs) + 1].ticket = admitted + 1
      BY <1>0, <1>1, <2>1 DEF Admit
    <3>2. /\ admitted' = admitted + 1
          /\ taken' = taken
          /\ job' = job
          /\ admitted \in Nat
          /\ taken \in Nat
      BY <1>1 DEF Admit, TypeOK
    <3>3. /\ Len(jobs) = admitted - taken
          /\ \A i \in 1..Len(jobs) : jobs[i].ticket = taken + i
          /\ job # NoJob => job.ticket = taken
      BY DEF NothingLost
    <3>4. ASSUME NEW i \in 1..Len(jobs') PROVE jobs'[i].ticket = taken' + i
      <4>1. CASE i \in 1..Len(jobs)
        BY <3>1, <3>2, <3>3, <4>1
      <4>2. CASE i = Len(jobs) + 1
        BY <1>0, <3>1, <3>2, <3>3, <4>2
      <4> QED
        BY <1>0, <3>1, <4>1, <4>2
    <3> QED
      BY <1>0, <3>1, <3>2, <3>3, <3>4 DEF NothingLost
  <2>5. NoLostWakeup'
    BY <1>1 DEF TypeOK, NoLostWakeup, Admit
  <2> QED
    BY <2>2, <2>3, <2>4, <2>5
<1>2. ASSUME NEW r \in Receivers, NEW bytes \in PayloadBytes, Drop(r, bytes)
      PROVE  IInv'
  <2>1. TypeOK'
    BY <1>2 DEF TypeOK, Drop, Offer
  <2>2. BytesAccounted'
    BY <1>2, TotalsUnchanged DEF Drop
  <2>3. NothingLost' /\ NoLostWakeup'
    BY <1>2 DEF NothingLost, NoLostWakeup, Drop
  <2> QED
    BY <2>1, <2>2, <2>3
<1>3. ASSUME NEW r \in Receivers, Notify(r)
      PROVE  IInv'
  <2>1. TypeOK'
    BY <1>3 DEF TypeOK, Notify
  <2>2. BytesAccounted'
    BY <1>3, TotalsUnchanged DEF Notify
  <2>3. NothingLost'
    BY <1>3 DEF NothingLost, Notify
  <2>4. NoLostWakeup'
    BY <1>3 DEF TypeOK, NoLostWakeup, Notify
  <2> QED
    BY <2>1, <2>2, <2>3, <2>4
<1>4. CASE Sleep
  <2>1. TypeOK'
    BY <1>4 DEF TypeOK, Sleep
  <2>2. BytesAccounted'
    BY <1>4, TotalsUnchanged DEF Sleep
  <2>3. NothingLost' /\ NoLostWakeup'
    BY <1>4 DEF NothingLost, NoLostWakeup, Sleep
  <2> QED
    BY <2>1, <2>2, <2>3
<1>5. CASE SpuriousWake
  <2>1. TypeOK'
    BY <1>5 DEF TypeOK, SpuriousWake
  <2>2. BytesAccounted'
    BY <1>5, TotalsUnchanged DEF SpuriousWake
  <2>3. NothingLost' /\ NoLostWakeup'
    BY <1>5 DEF NothingLost, NoLostWakeup, SpuriousWake
  <2> QED
    BY <2>1, <2>2, <2>3
<1>6. CASE Take
  <2>1. /\ jobs # <<>>
        /\ Head(jobs) \in Job
        /\ Head(jobs) = jobs[1]
        /\ Head(jobs) # NoJob
        /\ Head(jobs).bytes \in 1..QueueBytes
    BY <1>0, <1>6, JobFacts DEF Take
  <2>2. /\ Tail(jobs) \in Seq(Job)
        /\ Len(Tail(jobs)) = Len(jobs) - 1
        /\ \A i \in 1..Len(Tail(jobs)) : Tail(jobs)[i] = jobs[i + 1]
    BY <1>0, <2>1
  <2>3. TypeOK'
    BY <1>6, <2>1, <2>2 DEF TypeOK, Take
  <2>4. BytesAccounted'
    BY <1>6, TotalsAfterTake
  <2>5. NothingLost'
    BY <1>0, <1>6, <2>1, <2>2 DEF TypeOK, NothingLost, Take
  <2>6. NoLostWakeup'
    BY <1>6 DEF NoLostWakeup, Take
  <2> QED
    BY <2>3, <2>4, <2>5, <2>6
<1>7. CASE Finish
  <2>1. TypeOK'
    BY <1>7 DEF TypeOK, Finish
  <2>2. BytesAccounted'
    BY <1>7, TotalsUnchanged DEF Finish
  <2>3. NothingLost' /\ NoLostWakeup'
    BY <1>7 DEF NothingLost, NoLostWakeup, Finish
  <2> QED
    BY <2>1, <2>2, <2>3
<1>8. CASE UNCHANGED vars
  <2>1. TypeOK'
    BY <1>8 DEF TypeOK, vars
  <2>2. BytesAccounted'
    BY <1>8, TotalsUnchanged DEF vars
  <2>3. NothingLost' /\ NoLostWakeup'
    BY <1>8 DEF NothingLost, NoLostWakeup, vars
  <2> QED
    BY <2>1, <2>2, <2>3
<1> QED
  BY <1>1, <1>2, <1>3, <1>4, <1>5, <1>6, <1>7, <1>8 DEF Next

LEMMA Invariance == Safety => []IInv
BY InitInv, NextInv, PTL DEF Safety

-----------------------------------------------------------------------------
(***************************************************************************)
(* Type correctness of the queue, the counters and the threads' positions  *)
(* in enqueue_spectrum_write and spectrum_writer_worker.                   *)
(***************************************************************************)
THEOREM QueueTypeCorrect == Safety => []TypeOK
BY Invariance, PTL DEF IInv

(***************************************************************************)
(* queued_bytes is always the sum of the payloads in the queue: no order   *)
(* of pushes and pops by enqueue_spectrum_write and spectrum_writer_worker *)
(* makes the two drift apart.                                              *)
(***************************************************************************)
THEOREM QueueBytesAccounted == Safety => []BytesAccounted
BY Invariance, PTL DEF IInv

(***************************************************************************)
(* The memory bound: queued_bytes stays between 0 and                      *)
(* SPECTRUM_WRITE_QUEUE_BYTES, so the size_t subtraction in                *)
(* spectrum_writer_worker never wraps.                                     *)
(***************************************************************************)
THEOREM QueueBytesBounded == Safety => []BytesBounded
<1>1. IInv => BytesBounded
  BY DEF IInv, TypeOK, BytesAccounted, RunningTotals, BytesBounded
<1> QED
  BY <1>1, Invariance, PTL

(***************************************************************************)
(* Results leave the queue in the order in which the receivers' critical   *)
(* sections let them in, each exactly once.                                *)
(***************************************************************************)
THEOREM QueueNothingLost == Safety => []NothingLost
BY Invariance, PTL DEF IInv

(***************************************************************************)
(* The notification that follows the unlock cannot be lost: a Writer       *)
(* asleep beside a non-empty queue always has a notification on its way.   *)
(***************************************************************************)
THEOREM QueueNoLostWakeup == Safety => []NoLostWakeup
BY Invariance, PTL DEF IInv

(***************************************************************************)
(* The queue with its threads, its byte count and its condition variable   *)
(* implements the plain first-in first-out queue of WriterFifo: letting a  *)
(* result in is a Put, taking one a Get, finishing one a Release, and      *)
(* every other step is invisible.                                          *)
(***************************************************************************)
THEOREM QueueImplementsFifo == Safety => Fifo!Safety
<1>1. Init => Fifo!Init
  BY DEF Init, Fifo!Init
<1>2. IInv /\ [Next]_vars => [Fifo!Next]_(Fifo!fifoVars)
  <2> SUFFICES ASSUME IInv, [Next]_vars
               PROVE  [Fifo!Next]_(Fifo!fifoVars)
    OBVIOUS
  <2> USE DEF IInv, TypeOK
  <2>1. ASSUME NEW r \in Receivers, NEW bytes \in PayloadBytes, Admit(r, bytes)
        PROVE  Fifo!Next
    <3>1. [ticket |-> admitted + 1, bytes |-> bytes] \in Job
      BY <2>1, QueueAssumption DEF Admit, Offer, Job
    <3>2. Fifo!Put([ticket |-> admitted + 1, bytes |-> bytes])
      BY <2>1 DEF Admit, Fifo!Put
    <3> QED
      BY <3>1, <3>2 DEF Fifo!Next
  <2>2. CASE Take
    BY <2>2 DEF Take, Fifo!Get, Fifo!Next
  <2>3. CASE Finish
    BY <2>3 DEF Finish, Fifo!Release, Fifo!Next
  <2>4. CASE \/ \E r \in Receivers, bytes \in PayloadBytes : Drop(r, bytes)
             \/ \E r \in Receivers : Notify(r)
             \/ Sleep
             \/ SpuriousWake
             \/ UNCHANGED vars
    BY <2>4 DEF Drop, Notify, Sleep, SpuriousWake, vars, Fifo!fifoVars
  <2> QED
    BY <2>1, <2>2, <2>3, <2>4 DEF Next
<1> QED
  BY <1>1, <1>2, Invariance, PTL DEF Safety, Fifo!Safety

=============================================================================
