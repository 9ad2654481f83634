------------------------------- MODULE MCBelt -------------------------------
(***************************************************************************)
(* Constants for model-checking BeltDrive.                                 *)
(***************************************************************************)
EXTENDS BeltDrive

MCStepRequests == {-1, 0, 1}
=============================================================================
