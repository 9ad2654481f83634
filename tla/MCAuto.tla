------------------------------- MODULE MCAuto -------------------------------
(***************************************************************************)
(* The automatic modes for TLC: for each launch the controls that matter   *)
(* there, few of them at a time.                                           *)
(***************************************************************************)
EXTENDS AutoMode

MCPads ==
  [manual |-> {{}, {"HOME"}, {"L2", "R2"}, {"R2", "SQUARE"}, {"R2", "LEFT"},
               {"UP"}, {"DOWN"}, {"R1"}, {"STICK"}, {"OPTIONS"}},
   game3 |-> {{}, {"HOME"}, {"L2", "R2"}, {"R2", "SQUARE"}, {"OPTIONS"},
              {"L1"}},
   game2 |-> {{}, {"HOME"}, {"OPTIONS"}, {"L2", "CIRCLE"}},
   pk |-> {{}, {"HOME"}, {"OPTIONS"}, {"CIRCLE"}, {"RIGHT"}, {"LEFT"},
          {"STICK"}}]

MCLevelOf == [p \in 0 .. 2 |-> 3 - p]

\* The states TLC tells apart.  No guard and no property reads the last
\* velocity command, but for its type: states that differ in nothing else go
\* on alike.
AllButDrive ==
  <<launch, pad, last, joy, fire, slow, belt, sent, pk, game2, cycle>>
=============================================================================
