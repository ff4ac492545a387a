--------------------------- MODULE MCContinuumFile ---------------------------
(***************************************************************************)
(* ContinuumFile with four integrations and two crashes.                   *)
(***************************************************************************)
EXTENDS ContinuumFile
=============================================================================
