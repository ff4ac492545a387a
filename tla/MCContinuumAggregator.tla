------------------------ MODULE MCContinuumAggregator ------------------------
(***************************************************************************)
(* ContinuumAggregator with two integrations 10 apart and a tolerance of   *)
(* 2.  The first has three inputs whose times differ by up to twice the    *)
(* tolerance, and the last of which may report the other noise state.      *)
(***************************************************************************)
EXTENDS ContinuumAggregator

CONSTANTS i1, i2, i3

MCInputs == {i1, i2, i3}
MCPower == [i \in MCInputs |-> IF i = i1 THEN 1 ELSE IF i = i2 THEN 2 ELSE 4]

MCResult(k, i, jitter, noise) ==
  [of |-> k, ts |-> 10 * k + jitter, start |-> 10 * k, noise |-> noise, exposure |-> 1, input |-> i]

MCResults ==
  {MCResult(1, i1, 0, 0), MCResult(1, i2, 2, 0), MCResult(1, i3, 1, 0), MCResult(1, i3, 1, 1),
   MCResult(2, i1, 0, 0), MCResult(2, i2, 2, 0), MCResult(2, i3, 4, 0)}

\* Each input's result arrives once, apart from the first one's, which may be repeated.
MCFirstRepeats == [i \in MCInputs |-> IF i = i1 THEN 2 ELSE 1]

MCAllRepeat == [i \in MCInputs |-> 2]

=============================================================================
