------------------------- MODULE MCContinuumRecorder -------------------------
(***************************************************************************)
(* ContinuumRecorder with two receivers, a queue of two, an integration of *)
(* three inputs, the last of which may report the other noise state, and   *)
(* the first result of the next integration.                               *)
(***************************************************************************)
EXTENDS ContinuumRecorder

CONSTANTS i1, i2, i3

MCInputs == {i1, i2, i3}
MCPower == [i \in MCInputs |-> IF i = i1 THEN 1 ELSE IF i = i2 THEN 2 ELSE 4]

MCResult(k, i, jitter, noise) ==
  [of |-> k, ts |-> 10 * k + jitter, start |-> 10 * k, noise |-> noise, exposure |-> 1, input |-> i]

MCResults ==
  {MCResult(1, i1, 0, 0), MCResult(1, i2, 2, 0), MCResult(1, i3, 1, 0), MCResult(1, i3, 1, 1),
   MCResult(2, i1, 0, 0)}

MCOnce == [i \in MCInputs |-> 1]

=============================================================================
