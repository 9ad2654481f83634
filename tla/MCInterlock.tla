----------------------------- MODULE MCInterlock -----------------------------
(***************************************************************************)
(* Constants for model-checking ShotInterlock.                             *)
(***************************************************************************)
EXTENDS ShotInterlock

MCNoCompensation == {0}
==========================================================================
