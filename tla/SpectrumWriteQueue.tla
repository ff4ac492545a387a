------------------------- MODULE SpectrumWriteQueue -------------------------
(***************************************************************************)
(* One of the eight Writer queues of src/src/zmq_receiver.cpp              *)
(* (SpectrumWriteQueue), the receiver threads that fill it                 *)
(* (enqueue_spectrum_write) and the Writer thread that empties it          *)
(* (spectrum_writer_worker).                                               *)
(*                                                                         *)
(* Everything a thread does while it holds queue.mutex is one step: the    *)
(* mutex is held for no other reason and nothing blocks inside it, apart   *)
(* from the wait, which gives the mutex back.  What happens outside it is  *)
(* a step of its own: notify_one() follows the unlock, and the Writer      *)
(* writes the row with the queue unlocked.                                 *)
(***************************************************************************)
EXTENDS Integers, Sequences

CONSTANTS Receivers,      \* the receive_worker threads
          PayloadBytes,   \* payload sizes of the results they offer
          QueueBytes,     \* SPECTRUM_WRITE_QUEUE_BYTES
          MaxResults,     \* bound: results offered in a behaviour
          NoJob           \* "the Writer has no job"

(***************************************************************************)
(* validate_header lets through at most MAX_SPECTRUM_CHANNELS channels of  *)
(* four floats each: 65536 * 256 * 16 bytes, which is exactly              *)
(* SPECTRUM_WRITE_QUEUE_BYTES.  An empty payload is refused with           *)
(* n_channels = 0.                                                         *)
(***************************************************************************)
ASSUME QueueAssumption ==
  /\ QueueBytes \in Nat
  /\ PayloadBytes \subseteq 1..QueueBytes
  /\ MaxResults \in Nat
  /\ NoJob \notin [ticket : 1..MaxResults, bytes : PayloadBytes]

\* A CompletedSpectrum: its payload_bytes, and the order in which it was let in.
Job == [ticket : 1..MaxResults, bytes : PayloadBytes]

VARIABLES jobs,           \* queue.jobs
          queuedBytes,    \* queue.queued_bytes
          dropped,        \* the counter of results refused by a full queue
          rxPc,           \* where each receiver is: "receive" or "notify"
          writerPc,       \* where the Writer is: "check", "waiting", "writing"
          job,            \* the Writer's local job
          admitted,       \* history: results let in so far
          taken           \* history: results the Writer has taken so far

vars == <<jobs, queuedBytes, dropped, rxPc, writerPc, job, admitted, taken>>

Init ==
  /\ jobs = <<>>
  /\ queuedBytes = 0
  /\ dropped = 0
  /\ rxPc = [r \in Receivers |-> "receive"]
  /\ writerPc = "check"
  /\ job = NoJob
  /\ admitted = 0
  /\ taken = 0

-----------------------------------------------------------------------------
(* enqueue_spectrum_write *)

\* Mutant of Full: the payload that is offered is not counted.
FullUncounted(bytes) == jobs # <<>> /\ queuedBytes > QueueBytes

\* The queue refuses a result only when it is not empty and would overflow.
Full(bytes) == jobs # <<>> /\ queuedBytes + bytes > QueueBytes

Offer(r) == rxPc[r] = "receive" /\ admitted + dropped < MaxResults

\* Mutant of Admit: no notify_one().
AdmitSilently(r, bytes) ==
  /\ Offer(r)
  /\ ~Full(bytes)
  /\ jobs' = Append(jobs, [ticket |-> admitted + 1, bytes |-> bytes])
  /\ queuedBytes' = queuedBytes + bytes
  /\ admitted' = admitted + 1
  /\ UNCHANGED <<dropped, rxPc, writerPc, job, taken>>

Admit(r, bytes) ==
  /\ Offer(r)
  /\ ~Full(bytes)
  /\ jobs' = Append(jobs, [ticket |-> admitted + 1, bytes |-> bytes])
  /\ queuedBytes' = queuedBytes + bytes
  /\ admitted' = admitted + 1
  /\ rxPc' = [rxPc EXCEPT ![r] = "notify"]
  /\ UNCHANGED <<dropped, writerPc, job, taken>>

Drop(r, bytes) ==
  /\ Offer(r)
  /\ Full(bytes)
  /\ dropped' = dropped + 1
  /\ UNCHANGED <<jobs, queuedBytes, rxPc, writerPc, job, admitted, taken>>

\* queue.ready.notify_one(), after the lock was released.
Notify(r) ==
  /\ rxPc[r] = "notify"
  /\ rxPc' = [rxPc EXCEPT ![r] = "receive"]
  /\ writerPc' = IF writerPc = "waiting" THEN "check" ELSE writerPc
  /\ UNCHANGED <<jobs, queuedBytes, dropped, job, admitted, taken>>

-----------------------------------------------------------------------------
(* spectrum_writer_worker *)

\* The predicate is false: the wait releases the mutex and sleeps.
Sleep ==
  /\ writerPc = "check"
  /\ jobs = <<>>
  /\ writerPc' = "waiting"
  /\ UNCHANGED <<jobs, queuedBytes, dropped, rxPc, job, admitted, taken>>

\* A condition variable may wake its waiter without a notification.
SpuriousWake ==
  /\ writerPc = "waiting"
  /\ writerPc' = "check"
  /\ UNCHANGED <<jobs, queuedBytes, dropped, rxPc, job, admitted, taken>>

\* Mutant of Take: the back of the deque instead of its front.
TakeNewest ==
  /\ writerPc = "check"
  /\ jobs # <<>>
  /\ job' = jobs[Len(jobs)]
  /\ jobs' = SubSeq(jobs, 1, Len(jobs) - 1)
  /\ queuedBytes' = queuedBytes - jobs[Len(jobs)].bytes
  /\ taken' = taken + 1
  /\ writerPc' = "writing"
  /\ UNCHANGED <<dropped, rxPc, admitted>>

Take ==
  /\ writerPc = "check"
  /\ jobs # <<>>
  /\ job' = Head(jobs)
  /\ jobs' = Tail(jobs)
  /\ queuedBytes' = queuedBytes - Head(jobs).bytes
  /\ taken' = taken + 1
  /\ writerPc' = "writing"
  /\ UNCHANGED <<dropped, rxPc, admitted>>

\* Mutant of Finish: the job outlives its turn of the loop.
FinishKeepingJob ==
  /\ writerPc = "writing"
  /\ writerPc' = "check"
  /\ UNCHANGED <<job, jobs, queuedBytes, dropped, rxPc, admitted, taken>>

\* write_spectrum_frame returns and the job is freed.
Finish ==
  /\ writerPc = "writing"
  /\ writerPc' = "check"
  /\ job' = NoJob
  /\ UNCHANGED <<jobs, queuedBytes, dropped, rxPc, admitted, taken>>

-----------------------------------------------------------------------------
Next ==
  \/ \E r \in Receivers, bytes \in PayloadBytes : Admit(r, bytes)
  \/ \E r \in Receivers, bytes \in PayloadBytes : Drop(r, bytes)
  \/ \E r \in Receivers : Notify(r)
  \/ Sleep
  \/ SpuriousWake
  \/ Take
  \/ Finish

Safety == Init /\ [][Next]_vars

(***************************************************************************)
(* A thread that can run does run: nothing in the code blocks a receiver   *)
(* between the unlock and the notification, nor a Writer that is awake,    *)
(* and CFITSIO calls return.  Results need not arrive, and spurious        *)
(* wake-ups need not happen.                                               *)
(***************************************************************************)
Fairness ==
  /\ \A r \in Receivers : WF_vars(Notify(r))
  /\ WF_vars(Sleep \/ Take)
  /\ WF_vars(Finish)

Spec == Safety /\ Fairness

-----------------------------------------------------------------------------
(* Properties *)

\* Type invariant.
TypeOK ==
  /\ jobs \in Seq(Job)
  /\ queuedBytes \in Int
  /\ dropped \in Nat
  /\ rxPc \in [Receivers -> {"receive", "notify"}]
  /\ writerPc \in {"check", "waiting", "writing"}
  /\ job \in Job \cup {NoJob}
  /\ job # NoJob <=> writerPc = "writing"
  /\ admitted \in Nat
  /\ taken \in Nat
  /\ admitted + dropped <= MaxResults

(***************************************************************************)
(* The queue never holds more than SPECTRUM_WRITE_QUEUE_BYTES, although an *)
(* empty queue lets in any result unchecked, and the size_t counter never  *)
(* goes below zero (it would wrap and lock every later result out).        *)
(***************************************************************************)
BytesBounded == queuedBytes \in 0..QueueBytes

(***************************************************************************)
(* queued_bytes is the sum of the payloads in the queue: there are running *)
(* totals, one per queued job, that start at 0, grow by each job's payload *)
(* (so they never decrease) and end at queued_bytes.                       *)
(***************************************************************************)
RunningTotals(total) ==
  /\ total[0] = 0
  /\ \A i \in 1..Len(jobs) : total[i] = total[i-1] + jobs[i].bytes
  /\ \A i, k \in 0..Len(jobs) : i <= k => total[i] <= total[k]
  /\ total[Len(jobs)] = queuedBytes

BytesAccounted == \E total \in [0..Len(jobs) -> 0..QueueBytes] : RunningTotals(total)

(***************************************************************************)
(* Results let in by any interleaving of the receivers are taken one by    *)
(* one in that order: what is queued is exactly what was let in and not    *)
(* yet taken, and the job being written is the last one taken.             *)
(***************************************************************************)
NothingLost ==
  /\ Len(jobs) = admitted - taken
  /\ \A i \in 1..Len(jobs) : jobs[i].ticket = taken + i
  /\ job # NoJob => job.ticket = taken

(***************************************************************************)
(* No lost wake-up: when the Writer sleeps while a result is queued, some  *)
(* receiver still has its notification to deliver.                         *)
(***************************************************************************)
NoLostWakeup ==
  writerPc = "waiting" /\ jobs # <<>> => \E r \in Receivers : rxPc[r] = "notify"

\* The queue implements the promise of WriterFifo, its liveness included: every
\* result let in is eventually taken, on the strength of the notifications alone.
Fifo == INSTANCE WriterFifo WITH Item <- Job, NoItem <- NoJob, queue <- jobs, held <- job

FifoSpec == Fifo!Spec

=============================================================================
