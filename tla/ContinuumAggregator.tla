------------------------- MODULE ContinuumAggregator -------------------------
(***************************************************************************)
(* The continuum Writer of src/src/zmq_receiver.cpp (continuum_worker):    *)
(* it takes the results of all inputs one at a time, in whatever order     *)
(* the receivers queued them, adds them up in one frame per integration    *)
(* (accumulate_continuum), writes the frames that are complete and sweeps  *)
(* out those that stay incomplete (discard_expired_continuum_frames).      *)
(*                                                                         *)
(* continuum_map is a set of frames; its key is a frame's ts.  A frame's   *)
(* created_at is kept as its age, in seconds, up to the age that matters.  *)
(***************************************************************************)
EXTENDS Integers, Sequences, FiniteSets, Functions

CONSTANTS Inputs,          \* input ids: subband and beam
          ContinuumInputs, \* cfg.continuum_inputs
          Power,           \* what each input contributes to an integration
          Results,         \* the ContinuumResults that can arrive
          Tolerance,       \* CONTINUUM_TIME_TOLERANCE_NS
          FrameTimeout,    \* CONTINUUM_FRAME_TIMEOUT, seconds
          SweepPeriod,     \* seconds between two sweeps
          MaxArrivals      \* bound, per input: its results for one integration

\* of is not part of the message: the integration the result belongs to.
Result == [of : Nat, ts : Nat, start : Nat, noise : {0, 1}, exposure : Nat, input : Inputs]

ASSUME AggregatorAssumption ==
  /\ ContinuumInputs \in Nat \ {0}
  /\ Power \in [Inputs -> Nat]
  /\ Results \subseteq Result
  /\ Tolerance \in Nat
  /\ FrameTimeout \in Nat \ {0} /\ SweepPeriod \in Nat
  /\ MaxArrivals \in [Inputs -> Nat]

\* A ContinuumFrame in the map: it waits for at least one more input.
Frame == [ts : Nat, start : Nat, noise : {0, 1}, exposure : Nat, power : Nat,
          received : 1..(ContinuumInputs - 1), inputs : SUBSET Inputs, age : 0..FrameTimeout]

VARIABLES frames,       \* continuum_map
          sinceSweep,   \* seconds since last_continuum_cleanup, up to SweepPeriod
          pc,           \* the worker: "wait" for a result or about to "sweep"
          written,      \* history: integrations handed to ContinuumFits::write
          arrived       \* history: per result, how often it arrived

vars == <<frames, sinceSweep, pc, written, arrived>>

Init ==
  /\ frames = {}
  /\ sinceSweep = 0
  /\ pc = "wait"
  /\ written = <<>>
  /\ arrived = [r \in Results |-> 0]

-----------------------------------------------------------------------------
(* accumulate_continuum *)

Distance(a, b) == IF a >= b THEN a - b ELSE b - a

\* Mutant of Near: only the first key that is not below t is looked at.
NearAbove(t) == {f \in frames : f.ts >= t /\ f.ts - t <= Tolerance}

Near(t) == {f \in frames : Distance(f.ts, t) <= Tolerance}

(***************************************************************************)
(* find_continuum_frame looks at the first key that is not below t and     *)
(* then at the last one that is; the first within the tolerance wins.      *)
(***************************************************************************)
Find(t) ==
  CHOOSE f \in Near(t) :
    \/ f.ts >= t /\ \A g \in Near(t) : g.ts >= t => f.ts <= g.ts
    \/ f.ts < t /\ \A g \in Near(t) : g.ts < t /\ g.ts <= f.ts

NewFrame(r) ==
  [ts |-> r.ts, start |-> r.start, noise |-> r.noise, exposure |-> r.exposure, power |-> 0,
   received |-> 0, inputs |-> {}, age |-> 0]

FrameFor(r) == IF Near(r.ts) = {} THEN NewFrame(r) ELSE Find(r.ts)

\* Mutant of Consistent: the noise state is not compared.
ConsistentButNoise(f, r) == f.start = r.start /\ f.exposure = r.exposure

\* Exposures are modelled as alike or not, the 1e-6 s between them ignored.
Consistent(f, r) == f.noise = r.noise /\ f.start = r.start /\ f.exposure = r.exposure

Counted(f, r) ==
  [f EXCEPT !.power = @ + Power[r.input], !.received = @ + 1, !.inputs = @ \cup {r.input}]

\* Mutants of Complete: > and one too few.
CompleteLate(f) == f.received > ContinuumInputs

CompleteEarly(f) == f.received + 1 >= ContinuumInputs

Complete(f) == f.received = ContinuumInputs

\* A result that contradicts the frame takes the whole frame with it.
Discard(r, f) ==
  /\ ~Consistent(f, r)
  /\ frames' = frames \ {f}
  /\ UNCHANGED written

Repeat(r, f) ==
  /\ Consistent(f, r)
  /\ r.input \in f.inputs
  /\ UNCHANGED <<frames, written>>

\* Mutant of Add: a repeated input counts again.
AddAgain(r, f) ==
  /\ Consistent(f, r)
  /\ ~Complete(Counted(f, r))
  /\ frames' = (frames \ {f}) \cup {Counted(f, r)}
  /\ UNCHANGED written

Add(r, f) ==
  /\ Consistent(f, r)
  /\ r.input \notin f.inputs
  /\ ~Complete(Counted(f, r))
  /\ frames' = (frames \ {f}) \cup {Counted(f, r)}
  /\ UNCHANGED written

\* The frame is erased whether or not ContinuumFits::write succeeds.
Finish(r, f) ==
  /\ Consistent(f, r)
  /\ r.input \notin f.inputs
  /\ Complete(Counted(f, r))
  /\ frames' = frames \ {f}
  /\ written' = Append(written, [of |-> r.of, start |-> f.start, noise |-> f.noise,
                                 power |-> Counted(f, r).power])

\* The results of one input for one integration.
Alike(r) == {q \in Results : q.of = r.of /\ q.input = r.input}

Accumulate(r) ==
  /\ pc = "wait"
  /\ SumFunctionOnSet(arrived, Alike(r)) < MaxArrivals[r.input]
  /\ arrived' = [arrived EXCEPT ![r] = @ + 1]
  /\ LET f == FrameFor(r) IN Discard(r, f) \/ Repeat(r, f) \/ Add(r, f) \/ Finish(r, f)
  /\ pc' = "sweep"
  /\ UNCHANGED sinceSweep

-----------------------------------------------------------------------------
(* The rest of continuum_worker's loop *)

\* Mutant of NoResult: wait() instead of wait_for().
NoResultNever == FALSE

\* wait_for returns without a result after a second.
NoResult ==
  /\ pc = "wait"
  /\ pc' = "sweep"
  /\ UNCHANGED <<frames, sinceSweep, written, arrived>>

\* discard_expired_continuum_frames, called after every wait.
Sweep ==
  /\ pc = "sweep"
  /\ pc' = "wait"
  /\ IF sinceSweep < SweepPeriod THEN UNCHANGED <<frames, sinceSweep>>
     ELSE /\ frames' = {f \in frames : f.age < FrameTimeout}
          /\ sinceSweep' = 0
  /\ UNCHANGED <<written, arrived>>

\* A second passes.
Tick ==
  /\ frames' = {[f EXCEPT !.age = IF @ < FrameTimeout THEN @ + 1 ELSE @] : f \in frames}
  /\ sinceSweep' = IF sinceSweep < SweepPeriod THEN sinceSweep + 1 ELSE sinceSweep
  /\ UNCHANGED <<pc, written, arrived>>

Next ==
  \/ \E r \in Results : Accumulate(r)
  \/ NoResult
  \/ Sweep
  \/ Tick

Safety == Init /\ [][Next]_vars

\* Time passes, the wait ends at the latest by its timeout, and the loop goes on.
Spec == Safety /\ WF_vars(Tick) /\ WF_vars(NoResult) /\ WF_vars(Sweep)

-----------------------------------------------------------------------------
(* Properties *)

Written == [of : Nat, start : Nat, noise : {0, 1}, power : Nat]

\* Type invariant.
TypeOK ==
  /\ frames \subseteq Frame
  /\ sinceSweep \in 0..SweepPeriod
  /\ pc \in {"wait", "sweep"}
  /\ written \in Seq(Written)
  /\ arrived \in [Results -> Nat]

(***************************************************************************)
(* No two frames are within the tolerance of each other, so results of one *)
(* integration never gather in two frames side by side, and a result finds *)
(* its frame whichever neighbour find_continuum_frame looks at first.      *)
(***************************************************************************)
FramesApart == \A f, g \in frames : f # g => Distance(f.ts, g.ts) > Tolerance

(***************************************************************************)
(* A frame's count, its set of inputs and its sum agree, however often     *)
(* inputs repeat their results.                                            *)
(***************************************************************************)
FramesAgree ==
  \A f \in frames :
    /\ f.received = Cardinality(f.inputs)
    /\ f.power = SumFunctionOnSet(Power, f.inputs)

(***************************************************************************)
(* "The recorder never writes a partial continuum sum": what is written is *)
(* the sum over all inputs, each counted once.  (All inputs are enabled:   *)
(* ContinuumInputs = Cardinality(Inputs).)                                 *)
(***************************************************************************)
SumsWhole ==
  \A i \in 1..Len(written) : written[i].power = SumFunctionOnSet(Power, Inputs)

(***************************************************************************)
(* An integration for which some input reported another start, noise state *)
(* or exposure than the others is never written, in whatever order the     *)
(* results arrive.                                                         *)
(***************************************************************************)
Contradicted(k) ==
  LET came == {r \in Results : r.of = k /\ arrived[r] > 0}
  IN \E r, q \in came :
       <<r.start, r.noise, r.exposure>> # <<q.start, q.noise, q.exposure>>

ContradictedNeverWritten == \A i \in 1..Len(written) : ~Contradicted(written[i].of)

\* "Duplicates are not counted twice" (README): no integration is written twice.
WrittenOnce ==
  \A i, k \in 1..Len(written) :
    i # k => written[i].start # written[k].start \/ written[i].noise # written[k].noise

\* No frame is kept for ever: it is written, discarded or timed out.
EveryFrameEnds ==
  \A t \in {r.ts : r \in Results} :
    (\E f \in frames : f.ts = t) ~> (\A f \in frames : f.ts # t)

=============================================================================
