-------------------------- MODULE MCReceiverStartup --------------------------
(***************************************************************************)
(* ReceiverStartup with three ports and three Writers.                     *)
(***************************************************************************)
EXTENDS ReceiverStartup
=============================================================================
