------------------------ MODULE MCSpectrumWriteQueue ------------------------
(***************************************************************************)
(* SpectrumWriteQueue with three receivers, payloads of one byte to a full *)
(* queue (four), and six results.                                          *)
(***************************************************************************)
EXTENDS SpectrumWriteQueue

MCPayloadBytes == {1, 2, 4}

=============================================================================
