------------------------------ MODULE MCDribble ------------------------------
(***************************************************************************)
(* Constants for model-checking DribbleController.                         *)
(***************************************************************************)
EXTENDS DribbleController

MCNoCompensation == {0}
MCCompensations == {-1, 1}
==========================================================================
