------------------------------ MODULE MCSpring ------------------------------
(***************************************************************************)
(* Constants for model-checking SpringController and SpringRefinement.     *)
(***************************************************************************)
EXTENDS SpringRefinement

MCPositions == {-2, 0, 1}
MCIncrement == -3
MCLowest == -2
MCSlowPositions == {-2, 0, 1}
==========================================================================
