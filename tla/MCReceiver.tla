----------------------------- MODULE MCReceiver -----------------------------
(***************************************************************************)
(* Receiver with one stream, two ports, four results and two restarts of   *)
(* the sender, which numbers from 0 or from 2 after each of them.  The     *)
(* streams share nothing but the counters of gaps.                         *)
(***************************************************************************)
EXTENDS Receiver, TLC

MCFirstSeqs == {0, 2}

MCSymmetry == Permutations(Ports)

=============================================================================
