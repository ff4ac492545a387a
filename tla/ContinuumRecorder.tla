-------------------------- MODULE ContinuumRecorder --------------------------
(***************************************************************************)
(* Continuum mode between the sequence check and the file: the receiver    *)
(* threads (enqueue_continuum), the bounded ContinuumQueue they share, and *)
(* the worker that empties it (continuum_worker) around the aggregation of *)
(* ContinuumAggregator.                                                    *)
(*                                                                         *)
(* As in SpectrumWriteQueue, what is done under continuum_queue.mutex is   *)
(* one step and the notification after the unlock is another.  Here the    *)
(* wait has a timeout, the worker may be gone for good, and a result waits *)
(* in the queue while the frame it belongs to grows old.                   *)
(***************************************************************************)
EXTENDS Integers, Sequences, FiniteSets, Functions

CONSTANTS Receivers,     \* the receive_worker threads
          Capacity,      \* CONTINUUM_QUEUE_CAPACITY
          NoJob,         \* "the worker has no result"
          Inputs, ContinuumInputs, Power, Results, Tolerance, FrameTimeout,
          SweepPeriod, MaxArrivals    \* those of ContinuumAggregator

VARIABLES jobs,          \* continuum_queue.jobs
          rxPc,          \* where each receiver is: "receive" or "notify"
          place,         \* the worker: "create", "look", "waiting", "add", "gone"
          job,           \* the worker's local result
          offered,       \* history: per result, how often it came to enqueue_continuum
          admitted,      \* history: results that were let in
          swept,         \* history: integration starts of the frames that timed out
          frames, sinceSweep, pc, written, arrived    \* those of ContinuumAggregator

queueVars == <<jobs, rxPc, offered, admitted>>
aggregation == <<frames, sinceSweep, pc, written, arrived>>
vars == <<queueVars, place, job, swept, aggregation>>

Aggregator == INSTANCE ContinuumAggregator

\* What ContinuumAggregator assumes of its constants; no result is taken for none.
ASSUME ContinuumRecorderAssumption ==
  /\ Capacity \in Nat \ {0}
  /\ NoJob \notin Results
  /\ ContinuumInputs \in Nat \ {0}
  /\ Power \in [Inputs -> Nat]
  /\ Results \subseteq Aggregator!Result
  /\ Tolerance \in Nat
  /\ FrameTimeout \in Nat \ {0} /\ SweepPeriod \in Nat
  /\ MaxArrivals \in [Inputs -> Nat]

Init ==
  /\ Aggregator!Init
  /\ jobs = <<>>
  /\ rxPc = [r \in Receivers |-> "receive"]
  /\ place = "create"
  /\ job = NoJob
  /\ offered = [result \in Results |-> 0]
  /\ admitted = {}
  /\ swept = {}

-----------------------------------------------------------------------------
(* enqueue_continuum *)

Offer(r, result) ==
  /\ rxPc[r] = "receive"
  /\ SumFunctionOnSet(offered, Aggregator!Alike(result)) < MaxArrivals[result.input]
  /\ offered' = [offered EXCEPT ![result] = @ + 1]

\* Mutant of Full: one too many.
FullLate == Len(jobs) > Capacity

Full == Len(jobs) >= Capacity

Admit(r, result) ==
  /\ Offer(r, result)
  /\ ~Full
  /\ jobs' = Append(jobs, result)
  /\ admitted' = admitted \cup {result}
  /\ rxPc' = [rxPc EXCEPT ![r] = "notify"]
  /\ UNCHANGED <<place, job, swept, aggregation>>

Refuse(r, result) ==
  /\ Offer(r, result)
  /\ Full
  /\ UNCHANGED <<jobs, rxPc, admitted, place, job, swept, aggregation>>

\* continuum_queue.ready.notify_one(), after the unlock.
Notify(r) ==
  /\ rxPc[r] = "notify"
  /\ rxPc' = [rxPc EXCEPT ![r] = "receive"]
  /\ place' = IF place = "waiting" THEN "look" ELSE place
  /\ UNCHANGED <<jobs, offered, admitted, job, swept, aggregation>>

-----------------------------------------------------------------------------
(* continuum_worker *)

\* Results may be queued before the file is there, and after it could not be made.
Create ==
  /\ place = "create"
  /\ place' \in {"look", "gone"}
  /\ UNCHANGED <<queueVars, job, swept, aggregation>>

AtQueue == place = "look" /\ pc = "wait"

Sleep ==
  /\ AtQueue
  /\ jobs = <<>>
  /\ place' = "waiting"
  /\ UNCHANGED <<queueVars, job, swept, aggregation>>

\* Spurious, or by the timeout with a result in the queue after all.
Wake ==
  /\ place = "waiting"
  /\ place' = "look"
  /\ UNCHANGED <<queueVars, job, swept, aggregation>>

\* Mutants of Take: the back of the deque; never the last result.
TakeNewest ==
  /\ AtQueue
  /\ jobs # <<>>
  /\ job' = jobs[Len(jobs)]
  /\ jobs' = SubSeq(jobs, 1, Len(jobs) - 1)
  /\ place' = "add"
  /\ UNCHANGED <<rxPc, offered, admitted, swept, aggregation>>

TakeButLast ==
  /\ AtQueue
  /\ Len(jobs) > 1
  /\ job' = Head(jobs)
  /\ jobs' = Tail(jobs)
  /\ place' = "add"
  /\ UNCHANGED <<rxPc, offered, admitted, swept, aggregation>>

Take ==
  /\ AtQueue
  /\ jobs # <<>>
  /\ job' = Head(jobs)
  /\ jobs' = Tail(jobs)
  /\ place' = "add"
  /\ UNCHANGED <<rxPc, offered, admitted, swept, aggregation>>

\* accumulate_continuum, with the queue unlocked.
Add ==
  /\ place = "add"
  /\ Aggregator!Accumulate(job)
  /\ place' = "look"
  /\ job' = NoJob
  /\ UNCHANGED <<queueVars, swept>>

\* wait_for ends without a result.
TimeOut ==
  /\ place = "waiting"
  /\ jobs = <<>>
  /\ Aggregator!NoResult
  /\ place' = "look"
  /\ UNCHANGED <<queueVars, job, swept>>

\* discard_expired_continuum_frames
Sweep ==
  /\ Aggregator!Sweep
  /\ swept' = swept \cup {f.start : f \in frames \ frames'}
  /\ UNCHANGED <<queueVars, place, job>>

\* The worker may be held up anywhere, by a slow file system most of all.
Tick ==
  /\ Aggregator!Tick
  /\ UNCHANGED <<queueVars, place, job, swept>>

-----------------------------------------------------------------------------
Worker == Create \/ Sleep \/ Take \/ Add \/ TimeOut \/ Sweep

Next ==
  \/ \E r \in Receivers, result \in Results : Admit(r, result) \/ Refuse(r, result)
  \/ \E r \in Receivers : Notify(r)
  \/ Worker
  \/ Wake
  \/ Tick

Safety == Init /\ [][Next]_vars

(***************************************************************************)
(* The worker goes on when it can: files calls return and wait_for ends at *)
(* the latest by its timeout.  Results need not come.                      *)
(***************************************************************************)
Spec == Safety /\ WF_vars(Worker) /\ \A r \in Receivers : WF_vars(Notify(r))

-----------------------------------------------------------------------------
(* Properties *)

\* Type invariant; the queue keeps to its capacity, the worker gone or not.
TypeOK ==
  /\ Aggregator!TypeOK
  /\ jobs \in Seq(Results) /\ Len(jobs) <= Capacity
  /\ rxPc \in [Receivers -> {"receive", "notify"}]
  /\ place \in {"create", "look", "waiting", "add", "gone"}
  /\ job \in Results \cup {NoJob}
  /\ place = "add" <=> job # NoJob
  /\ pc = "sweep" => place = "look"
  /\ offered \in [Results -> Nat]
  /\ admitted \subseteq Results
  /\ swept \subseteq Nat

(***************************************************************************)
(* The queue keeps the promise of WriterFifo: what was let in is added up  *)
(* in that order, nothing twice and nothing skipped.                       *)
(***************************************************************************)
Fifo == INSTANCE WriterFifo WITH Item <- Results, NoItem <- NoJob, queue <- jobs, held <- job

FifoSafety == Fifo!Safety

(***************************************************************************)
(* An integration is written once the results of all inputs were let into  *)
(* the queue and agree, unless the file could not be made or a frame of it *)
(* timed out: which the frame may do although the missing results are      *)
(* already queued behind a worker that was held up.                        *)
(***************************************************************************)
Together(k) ==
  LET came == {r \in admitted : r.of = k}
  IN /\ {r.input : r \in came} = Inputs
     /\ \A r, q \in came :
          /\ Aggregator!Distance(r.ts, q.ts) <= Tolerance
          /\ <<r.start, r.noise, r.exposure>> = <<q.start, q.noise, q.exposure>>

Excused(k) == place = "gone" \/ \E r \in admitted : r.of = k /\ r.start \in swept

CompleteWritten ==
  \A k \in {r.of : r \in Results} :
    Together(k) ~> ((\E i \in 1..Len(written) : written[i].of = k) \/ Excused(k) \/ ~Together(k))

(***************************************************************************)
(* What the aggregation does behind this queue is what ContinuumAggregator *)
(* allows when results come in any order.                                  *)
(***************************************************************************)
ImplementsAggregator == Aggregator!Safety

=============================================================================
