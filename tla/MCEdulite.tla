------------------------------ MODULE MCEdulite ------------------------------
(***************************************************************************)
(* Constants for model-checking EduliteDriver.                             *)
(***************************************************************************)
EXTENDS EduliteDriver

MCPositions == 0..3
MCLowest == -2
=============================================================================
