-------------------------- MODULE MCSpectralRecorder --------------------------
(***************************************************************************)
(* SpectralRecorder with one stream, whose sender may restart once and     *)
(* move between two ports, and three results.                              *)
(***************************************************************************)
EXTENDS SpectralRecorder

MCStreams == {[subband |-> 5, window |-> 2, beam |-> 1]}

MCFirstSeqs == {0}

=============================================================================
