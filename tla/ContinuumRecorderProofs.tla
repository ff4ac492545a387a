----------------------- MODULE ContinuumRecorderProofs -----------------------
(***************************************************************************)
(* The continuum queue and its worker for any number of receivers and any  *)
(* capacity: they keep the promise of a first-in-first-out queue, and      *)
(* behind them the aggregation only does what ContinuumAggregator allows.  *)
(***************************************************************************)
EXTENDS ContinuumRecorder, TLAPS

Checked == INSTANCE ContinuumAggregatorProofs

\* The types of the queue and of the worker.
QueueOK ==
  /\ jobs \in Seq(Results) /\ Len(jobs) <= Capacity
  /\ rxPc \in [Receivers -> {"receive", "notify"}]
  /\ place \in {"create", "look", "waiting", "add", "gone"}
  /\ job \in Results \cup {NoJob}
  /\ place = "add" <=> job # NoJob
  /\ pc \in {"wait", "sweep"}
  /\ pc = "sweep" => place = "look"
  /\ offered \in [Results -> Nat]
  /\ admitted \subseteq Results

-----------------------------------------------------------------------------
LEMMA InitQueueOK == Init => QueueOK
BY ContinuumRecorderAssumption DEF Init, Aggregator!Init, QueueOK

LEMMA NextQueueOK == QueueOK /\ [Next]_vars => QueueOK'
<1> SUFFICES ASSUME QueueOK, [Next]_vars PROVE QueueOK'
  OBVIOUS
<1> USE ContinuumRecorderAssumption DEF QueueOK, queueVars, aggregation
<1>1. ASSUME NEW r \in Receivers, NEW result \in Results, Admit(r, result)
      PROVE  QueueOK'
  <2>1. Len(jobs) < Capacity
    BY <1>1 DEF Admit, Full
  <2>2. jobs' \in Seq(Results) /\ Len(jobs') <= Capacity
    BY <1>1, <2>1 DEF Admit
  <2>3. rxPc' \in [Receivers -> {"receive", "notify"}]
    BY <1>1 DEF Admit
  <2>4. offered' \in [Results -> Nat]
    BY <1>1 DEF Admit, Offer
  <2> QED
    BY <1>1, <2>2, <2>3, <2>4 DEF Admit
<1>2. ASSUME NEW r \in Receivers, NEW result \in Results, Refuse(r, result)
      PROVE  QueueOK'
  <2>1. offered' \in [Results -> Nat]
    BY <1>2 DEF Refuse, Offer
  <2> QED
    BY <1>2, <2>1 DEF Refuse
<1>3. ASSUME NEW r \in Receivers, Notify(r) PROVE QueueOK'
  BY <1>3 DEF Notify
<1>4. CASE Create \/ Sleep \/ Wake
  BY <1>4 DEF Create, Sleep, AtQueue, Wake
<1>5. CASE Take
  <2>1. /\ jobs # <<>> /\ pc = "wait" /\ job' = Head(jobs) /\ jobs' = Tail(jobs)
        /\ place' = "add"
        /\ UNCHANGED <<rxPc, offered, admitted, pc>>
    BY <1>5 DEF Take, AtQueue
  <2>2. job' \in Results /\ jobs' \in Seq(Results) /\ Len(jobs') <= Capacity
    BY <2>1
  <2> QED
    BY <2>1, <2>2
<1>6. CASE Add
  <2>1. /\ place' = "look" /\ job' = NoJob /\ pc' = "sweep"
        /\ UNCHANGED <<jobs, rxPc, offered, admitted>>
    BY <1>6 DEF Add, Aggregator!Accumulate
  <2> QED
    BY <2>1
<1>7. CASE TimeOut
  <2>1. /\ place = "waiting" /\ place' = "look" /\ pc' = "sweep"
        /\ UNCHANGED <<jobs, rxPc, offered, admitted, job>>
    BY <1>7 DEF TimeOut, Aggregator!NoResult
  <2> QED
    BY <2>1
<1>8. CASE Sweep \/ Tick
  <2>1. /\ UNCHANGED <<jobs, rxPc, offered, admitted, job, place>>
        /\ pc' = "wait" \/ pc' = pc
    BY <1>8 DEF Sweep, Tick, Aggregator!Sweep, Aggregator!Tick
  <2> QED
    BY <2>1
<1>9. CASE UNCHANGED vars
  BY <1>9 DEF vars
<1> QED
  BY <1>1, <1>2, <1>3, <1>4, <1>5, <1>6, <1>7, <1>8, <1>9 DEF Next, Worker

LEMMA Invariance == Safety => []QueueOK
BY InitQueueOK, NextQueueOK, PTL DEF Safety

-----------------------------------------------------------------------------
\* Every step of the composition is one of the aggregation, or leaves it alone.
LEMMA AggregatorStep == QueueOK /\ [Next]_vars => [Aggregator!Next]_(Aggregator!vars)
<1> SUFFICES ASSUME QueueOK, [Next]_vars PROVE [Aggregator!Next]_(Aggregator!vars)
  OBVIOUS
<1> USE DEF queueVars, aggregation
<1>1. CASE Add
  <2>1. job \in Results
    BY <1>1 DEF Add, QueueOK
  <2> QED
    BY <1>1, <2>1 DEF Add, Aggregator!Next
<1>2. CASE TimeOut \/ Sweep \/ Tick
  BY <1>2 DEF TimeOut, Sweep, Tick, Aggregator!Next
<1>3. CASE \/ \E r \in Receivers, result \in Results : Admit(r, result) \/ Refuse(r, result)
           \/ \E r \in Receivers : Notify(r)
           \/ Create \/ Sleep \/ Take \/ Wake
           \/ UNCHANGED vars
  BY <1>3 DEF Admit, Refuse, Notify, Create, Sleep, Take, Wake, vars, Aggregator!vars
<1> QED
  BY <1>1, <1>2, <1>3 DEF Next, Worker

(***************************************************************************)
(* Behind the queue the aggregation does nothing that it does not do when  *)
(* results simply come in any order: every step of the composition is one  *)
(* of ContinuumAggregator or leaves it alone.                              *)
(***************************************************************************)
THEOREM RecorderImplementsAggregator == Safety => ImplementsAggregator
<1>1. Init => Aggregator!Init
  BY DEF Init
<1> QED
  BY <1>1, AggregatorStep, Invariance, PTL DEF Safety, ImplementsAggregator, Aggregator!Safety

(***************************************************************************)
(* The continuum queue keeps WriterFifo's promise of order: what was let   *)
(* in is added up in that order, nothing twice and nothing skipped.        *)
(***************************************************************************)
THEOREM RecorderFifo == Safety => FifoSafety
<1>1. Init => Fifo!Init
  BY DEF Init, Fifo!Init
<1>2. QueueOK /\ [Next]_vars => [Fifo!Next]_(Fifo!fifoVars)
  <2> SUFFICES ASSUME QueueOK, [Next]_vars PROVE [Fifo!Next]_(Fifo!fifoVars)
    OBVIOUS
  <2> USE DEF queueVars, QueueOK
  <2>1. ASSUME NEW r \in Receivers, NEW result \in Results, Admit(r, result)
        PROVE  Fifo!Next
    BY <2>1 DEF Admit, Fifo!Put, Fifo!Next
  <2>2. CASE Take
    BY <2>2 DEF Take, AtQueue, Fifo!Get, Fifo!Next
  <2>3. CASE Add
    BY <2>3 DEF Add, Fifo!Release, Fifo!Next
  <2>4. CASE \/ \E r \in Receivers, result \in Results : Refuse(r, result)
             \/ \E r \in Receivers : Notify(r)
             \/ Create \/ Sleep \/ Wake \/ TimeOut \/ Sweep \/ Tick
             \/ UNCHANGED vars
    BY <2>4 DEF Refuse, Notify, Create, Sleep, Wake, TimeOut, Sweep, Tick, vars, Fifo!fifoVars
  <2> QED
    BY <2>1, <2>2, <2>3, <2>4 DEF Next, Worker
<1> QED
  BY <1>1, <1>2, Invariance, PTL DEF Safety, FifoSafety, Fifo!Safety

-----------------------------------------------------------------------------
(* What ContinuumAggregatorProofs says of the aggregation *)

LEMMA SameAggregation ==
  /\ Aggregator!Init <=> Checked!Init
  /\ Aggregator!TypeOK <=> Checked!TypeOK
  /\ Aggregator!Next <=> Checked!Next
<1>1. Aggregator!Init <=> Checked!Init
  BY DEF Aggregator!Init, Checked!Init
<1>2. Aggregator!TypeOK <=> Checked!TypeOK
  BY DEF Aggregator!TypeOK, Checked!TypeOK, Aggregator!Frame, Checked!Frame,
         Aggregator!Written, Checked!Written
<1>3. ASSUME NEW r PROVE Aggregator!Accumulate(r) <=> Checked!Accumulate(r)
  <2>1. \A t : Aggregator!Near(t) = Checked!Near(t)
    BY DEF Aggregator!Near, Checked!Near, Aggregator!Distance, Checked!Distance
  <2>2. \A t : Aggregator!Find(t) = Checked!Find(t)
    BY <2>1 DEF Aggregator!Find, Checked!Find
  <2>3. Aggregator!FrameFor(r) = Checked!FrameFor(r)
    BY <2>1, <2>2 DEF Aggregator!FrameFor, Checked!FrameFor, Aggregator!NewFrame, Checked!NewFrame
  <2>4. \A f : Aggregator!Counted(f, r) = Checked!Counted(f, r)
    BY DEF Aggregator!Counted, Checked!Counted
  <2>5. \A f : /\ Aggregator!Consistent(f, r) <=> Checked!Consistent(f, r)
               /\ Aggregator!Complete(f) <=> Checked!Complete(f)
    BY DEF Aggregator!Consistent, Checked!Consistent, Aggregator!Complete, Checked!Complete
  <2>6. \A f : /\ Aggregator!Discard(r, f) <=> Checked!Discard(r, f)
               /\ Aggregator!Repeat(r, f) <=> Checked!Repeat(r, f)
               /\ Aggregator!Add(r, f) <=> Checked!Add(r, f)
               /\ Aggregator!Finish(r, f) <=> Checked!Finish(r, f)
    BY <2>4, <2>5 DEF Aggregator!Discard, Checked!Discard, Aggregator!Repeat, Checked!Repeat,
                      Aggregator!Add, Checked!Add, Aggregator!Finish, Checked!Finish
  <2>7. Aggregator!Alike(r) = Checked!Alike(r)
    BY DEF Aggregator!Alike, Checked!Alike
  <2>8. \A S : Aggregator!SumFunctionOnSet(arrived, S) = Checked!SumFunctionOnSet(arrived, S)
    BY Zenon DEF Aggregator!SumFunctionOnSet, Checked!SumFunctionOnSet,
           Aggregator!FoldFunctionOnSet, Checked!FoldFunctionOnSet,
           Aggregator!MapThenFoldSet, Checked!MapThenFoldSet
  <2> QED
    BY <2>3, <2>6, <2>7, <2>8 DEF Aggregator!Accumulate, Checked!Accumulate
<1>4. /\ Aggregator!NoResult <=> Checked!NoResult
      /\ Aggregator!Sweep <=> Checked!Sweep
      /\ Aggregator!Tick <=> Checked!Tick
  BY DEF Aggregator!NoResult, Checked!NoResult, Aggregator!Sweep, Checked!Sweep,
         Aggregator!Tick, Checked!Tick
<1>5. Aggregator!Next <=> Checked!Next
  BY <1>3, <1>4 DEF Aggregator!Next, Checked!Next
<1> QED
  BY <1>1, <1>2, <1>5

\* What is remembered of the frames that timed out is when they started.
SweptOK == swept \subseteq Nat

LEMMA SweptNext == Checked!IInv /\ SweptOK /\ [Next]_vars => SweptOK'
<1> SUFFICES ASSUME Checked!IInv, SweptOK, [Next]_vars PROVE SweptOK'
  OBVIOUS
<1>1. \A f \in frames : f.start \in Nat
  BY DEF Checked!IInv, Checked!TypeOK, Checked!Frame
<1>2. CASE Sweep
  BY <1>1, <1>2 DEF Sweep, SweptOK
<1>3. CASE UNCHANGED swept
  BY <1>3 DEF SweptOK
<1>4. CASE ~Sweep
  BY <1>3, <1>4 DEF Next, Worker, Admit, Refuse, Notify, Create, Sleep, Take, Add, TimeOut,
                    Wake, Tick, vars
<1> QED
  BY <1>2, <1>4

(***************************************************************************)
(* The queue never holds more than CONTINUUM_QUEUE_CAPACITY results, the   *)
(* worker has a result exactly while it adds it up and looks for expired   *)
(* frames only between two looks at the queue, and every frame it keeps    *)
(* waits for at least one more input.                                      *)
(***************************************************************************)
THEOREM RecorderTypeCorrect == Safety => []TypeOK
<1> DEFINE Types == Checked!IInv /\ QueueOK /\ SweptOK
<1>1. Init => Types
  BY SameAggregation, InitQueueOK, Checked!InitInv, ContinuumRecorderAssumption
  DEF Init, SweptOK, Aggregator!Result, Checked!Result
<1>2. Types /\ [Next]_vars => Types'
  <2> SUFFICES ASSUME Types, [Next]_vars PROVE Types'
    OBVIOUS
  <2>1. [Checked!Next]_(Checked!vars)
    BY AggregatorStep, SameAggregation DEF Aggregator!vars, Checked!vars
  <2>2. Checked!IInv'
    BY <2>1, Checked!NextInv, ContinuumRecorderAssumption DEF Aggregator!Result, Checked!Result
  <2> QED
    BY <2>2, NextQueueOK, SweptNext
<1>3. Types => TypeOK
  BY SameAggregation DEF Checked!IInv, QueueOK, SweptOK, TypeOK
<1> QED
  BY <1>1, <1>2, <1>3, PTL DEF Safety


=============================================================================
