---------------------- MODULE DribbleControllerProofs ----------------------
(***************************************************************************)
(* Theorems about the dribble controller, for every value of its           *)
(* constants: its types, that the spring is lent exactly during a shot     *)
(* cycle, that the arm never rests in front of the belts, that the         *)
(* emergency stop holds arm and roller, that an arm at rest is where it is *)
(* asked to be, and that a cycle no manual position aborts takes its belts *)
(* with it and withdraws its request behind the arm.                       *)
(***************************************************************************)
EXTENDS DribbleController, TLAPS

USE DEF Modes, Places, Phases, Operations

\* How the mode of the arm and the shot cycle go together: FEED is a mode of a
\* cycle only, so the mode a shot saves is never FEED; the spin-up, and the
\* preparation that precedes a cycle, keep the arm in DRIBBLE.
Together(s, a) ==
  /\ a.mode = "FEED" => s.active
  /\ s.active /\ s.phase = "BELT_SPINUP" => a.mode = "DRIBBLE"
  /\ s.pre # "IDLE" => a.mode = "DRIBBLE" /\ ~s.active

\* An arm that may drive and whose command touches FEED is on its way.
OnItsWay(in, s, a) ==
  "FEED" \in a.cmd /\ Running(in) => s.active \/ a.moving

Stopped(in, a, rpm) == in.stop => rpm = 0 /\ (in.ready => a.cmd = a.hold)

IInv ==
  /\ TypeOK /\ Together(shot, arm) /\ OnItsWay(input, shot, arm)
  /\ Stopped(input, arm, roller) /\ ClearanceFollowsCycle

-----------------------------------------------------------------------------
(***************************************************************************)
(* The roller.                                                             *)
(***************************************************************************)
LEMMA TargetType ==
  ASSUME NEW in \in Inputs, NEW s \in Shots, NEW a \in Arms,
         NEW c \in Compensations
  PROVE  RollerTarget(in, s, a, c) \in Int
<1>1. s.phase \in Phases /\ s.active \in BOOLEAN
  BY DEF Shots
<1>2. /\ OpeningRpm \in Int /\ FeedingRpm \in Int /\ ReturningRpm \in Int
      /\ SlowRpm \in Int /\ DribbleRpm \in Int /\ RpmLimit \in Int /\ c \in Int
  BY DribbleAssumption
<1>3. PhaseRpm(s) \in Int
  BY <1>1, <1>2 DEF PhaseRpm
<1>4. Clamp(DribbleRpm + c, 0, RpmLimit) \in Int
  BY <1>2 DEF Clamp
<1>5. CASE Slow(in)
  BY <1>2, <1>5 DEF RollerTarget
<1>6. CASE ~Slow(in) /\ s.active
  BY <1>3, <1>6 DEF RollerTarget
<1>7. CASE ~Slow(in) /\ ~s.active
  BY <1>4, <1>7 DEF RollerTarget
<1> QED BY <1>1, <1>5, <1>6, <1>7

LEMMA RollerType ==
  ASSUME NEW in \in Inputs, NEW s \in Shots, NEW a \in Arms, NEW rpm \in Int,
         NEW r \in RollerSpeeds(in, s, a, rpm)
  PROVE  r \in Int
<1>1. CASE in.stop \/ s.rollerOff
  BY <1>1 DEF RollerSpeeds
<1>2. CASE ~(in.stop \/ s.rollerOff)
  <2>1. PICK c \in Compensations :
          r \in LET to == RollerTarget(in, s, a, c) IN
                IF ~s.active /\ to = 0 /\ (a.mode = "OPEN" \/ Slow(in)) THEN {0}
                ELSE IF a.moving /\ ~s.active /\ in.enabled /\ ~Slow(in)
                  THEN Between(a.rpm, to)
                ELSE {Stepped(rpm, to)}
    BY <1>2 DEF RollerSpeeds
  <2> DEFINE to == RollerTarget(in, s, a, c)
  <2>2. to \in Int /\ a.rpm \in Int
    BY TargetType DEF Arms
  <2> HIDE DEF to
  <2>3. Stepped(rpm, to) \in Int
    BY <2>2 DEF Stepped, Clamp
  <2>4. r \in {0} \/ r \in Between(a.rpm, to) \/ r \in {Stepped(rpm, to)}
    BY <2>1 DEF to
  <2> QED BY <2>2, <2>3, <2>4 DEF Between
<1> QED BY <1>1, <1>2

LEMMA RollerStops ==
  ASSUME NEW in, NEW s, NEW a, NEW rpm, in.stop
  PROVE  RollerSpeeds(in, s, a, rpm) = {0}
BY DEF RollerSpeeds

-----------------------------------------------------------------------------
(***************************************************************************)
(* The control timer.  Its alternatives are taken for any inputs, shot and *)
(* arm that fit together, since the emergency stop calls it with its own.  *)
(***************************************************************************)
\* What a period with these inputs leaves behind.
After(in) ==
  /\ shot' \in Shots /\ arm' \in Arms /\ roller' \in Int
  /\ belt' \in {"NONE", "SPIN", "STOP"}
  /\ clearance' = shot'.active
  /\ Together(shot', arm') /\ OnItsWay(in, shot', arm')
  /\ Stopped(in, arm', roller')

LEMMA ShotEndedType ==
  ASSUME NEW s \in Shots
  PROVE  ShotEnded(s) \in Shots /\ ShotEnded(s).active = FALSE
         /\ ShotEnded(s).pre = s.pre
BY DEF ShotEnded, Shots

\* The arm at the end of a cycle, with the command of the period that ends it.
ArmBack(s, a, rpm, cmd) == [ArmAtEnd(s, a, rpm) EXCEPT !.cmd = cmd]

\* The arm goes back to the mode the cycle interrupted, which is not FEED.
LEMMA ArmAtEndType ==
  ASSUME NEW s \in Shots, NEW a \in Arms, NEW rpm \in Int, NEW cmd \in SUBSET Places
  PROVE  /\ ArmBack(s, a, rpm, cmd) \in Arms
         /\ ArmBack(s, a, rpm, cmd).mode # "FEED"
         /\ ArmBack(s, a, rpm, cmd).cmd = cmd
<1>1. s.saved \in Modes \ {"FEED"}
  BY DEF Shots
<1>2. StartMove(a, rpm) \in Arms
  BY DEF StartMove, Arms
<1> DEFINE b == IF s.saved = "DRIBBLE" THEN a ELSE StartMove(a, rpm)
<1>3. b \in Arms
  BY <1>2
<1> HIDE DEF b
<1>4. [b EXCEPT !.mode = s.saved] \in Arms
      /\ [b EXCEPT !.mode = s.saved].mode # "FEED"
  BY <1>1, <1>3 DEF Arms
<1>5. ArmAtEnd(s, a, rpm) = [b EXCEPT !.mode = s.saved]
  BY DEF ArmAtEnd, b
<1> QED BY <1>4, <1>5 DEF ArmBack, Arms

LEMMA SpinupInv ==
  ASSUME NEW in \in Inputs, NEW s \in Shots, NEW a \in Arms, Running(in),
         s.active, Together(s, a), roller' \in Int,
         NEW spins \in {"NONE", "SPIN", "STOP"}, Spinup(in, s, a, TRUE, spins)
  PROVE  After(in)
<1>0. /\ s.phase = "BELT_SPINUP" /\ a.mode = "DRIBBLE" /\ s.pre = "IDLE"
      /\ ~in.stop
  BY DEF Spinup, Together, Running, Shots
<1>1. CASE /\ shot' = ShotEnded(s)
           /\ arm' = [ArmAtEnd(s, a, roller') EXCEPT !.cmd = {a.mode}]
           /\ clearance' = FALSE
           /\ belt' \in {"STOP", spins}
  <2>1. arm' \in Arms /\ arm'.mode # "FEED" /\ arm'.cmd = {"DRIBBLE"}
    <3>1. {"DRIBBLE"} \in SUBSET Places /\ {a.mode} = {"DRIBBLE"}
      BY <1>0
    <3>2. arm' = ArmBack(s, a, roller', {"DRIBBLE"})
      BY <1>1, <3>1 DEF ArmBack
    <3> QED BY <3>1, <3>2, ArmAtEndType
  <2>2. shot' \in Shots /\ shot'.active = FALSE /\ shot'.pre = "IDLE"
    BY <1>0, <1>1, ShotEndedType
  <2> QED BY <1>0, <1>1, <2>1, <2>2 DEF After, Together, OnItsWay, Stopped
<1>2. CASE /\ shot' = [s EXCEPT !.phase = "FEEDING", !.rollerOff = FALSE]
           /\ arm' = [a EXCEPT !.age = 0, !.from = a.cmd, !.mode = "FEED",
                               !.cmd = {a.mode}]
           /\ clearance' = TRUE /\ belt' = spins
  <2>1. arm' \in Arms
    BY <1>2 DEF Arms
  <2>2. shot' \in Shots /\ shot'.active = TRUE /\ shot'.pre = "IDLE"
        /\ shot'.phase = "FEEDING"
    BY <1>0, <1>2 DEF Shots
  <2> QED BY <1>0, <1>2, <2>1, <2>2 DEF After, Together, OnItsWay, Stopped
<1>3. CASE /\ shot' = s /\ arm' = [a EXCEPT !.cmd = {a.mode}]
           /\ clearance' = TRUE /\ belt' = spins
  <2>1. arm' \in Arms /\ arm'.mode = a.mode
    BY <1>3 DEF Arms
  <2> QED BY <1>0, <1>3, <2>1 DEF After, Together, OnItsWay, Stopped
<1> QED BY <1>1, <1>2, <1>3 DEF Spinup

LEMMA FeedInv ==
  ASSUME NEW in \in Inputs, NEW s \in Shots, NEW a \in Arms, Running(in),
         s.active, clearance = TRUE, Together(s, a), roller' \in Int,
         NEW spins \in {"NONE", "SPIN", "STOP"}, Feed(s, a, spins)
  PROVE  After(in)
<1>0. s.phase = "FEEDING" /\ s.pre = "IDLE" /\ ~in.stop
  BY DEF Feed, Together, Running, Shots
<1>1. PICK ends \in BOOLEAN, stops \in BOOLEAN :
        IF ends
        THEN /\ shot' = [s EXCEPT !.phase = "RETURNING", !.rollerOff = FALSE]
             /\ arm' = [a EXCEPT !.mode = "FEED", !.age = 0,
                                 !.from = {"FEED"}, !.cmd = {"FEED"}]
        ELSE /\ shot' = [s EXCEPT !.rollerOff = @ \/ stops]
             /\ arm' = [a EXCEPT !.mode = "FEED", !.cmd = a.from \cup {"FEED"}]
  BY DEF Feed
<1>2. arm' \in Arms
  <2>1. CASE arm' = [a EXCEPT !.mode = "FEED", !.age = 0, !.from = {"FEED"},
                              !.cmd = {"FEED"}]
    BY <2>1 DEF Arms
  <2>2. CASE arm' = [a EXCEPT !.mode = "FEED", !.cmd = a.from \cup {"FEED"}]
    <3>1. a.from \cup {"FEED"} \in SUBSET Places
      BY DEF Arms
    <3> QED BY <2>2, <3>1 DEF Arms
  <2> QED BY <1>1, <2>1, <2>2
<1>3. shot' \in Shots /\ shot'.active = TRUE /\ shot'.pre = "IDLE"
      /\ shot'.phase # "BELT_SPINUP"
  <2>1. CASE shot' = [s EXCEPT !.phase = "RETURNING", !.rollerOff = FALSE]
    BY <1>0, <2>1 DEF Shots
  <2>2. CASE shot' = [s EXCEPT !.rollerOff = s.rollerOff \/ stops]
    <3>1. s.rollerOff \/ stops \in BOOLEAN
      BY DEF Shots
    <3> QED BY <1>0, <2>2, <3>1 DEF Shots
  <2> QED BY <1>1, <2>1, <2>2
<1> QED BY <1>0, <1>2, <1>3 DEF Feed, After, Together, OnItsWay, Stopped

LEMMA ReturnInv ==
  ASSUME NEW in \in Inputs, NEW s \in Shots, NEW a \in Arms, Running(in),
         s.active, clearance = TRUE, Together(s, a), roller' \in Int,
         NEW spins \in {"NONE", "SPIN", "STOP"}, Return(s, a, spins)
  PROVE  After(in)
<1>0. s.phase = "RETURNING" /\ s.pre = "IDLE" /\ ~in.stop
  BY DEF Return, Together, Running, Shots
<1>1. CASE /\ shot' = ShotEnded(s)
           /\ arm' = [ArmAtEnd(s, a, roller') EXCEPT !.cmd = {"DRIBBLE"}]
           /\ clearance' = FALSE
           /\ belt' \in {"STOP", spins}
  <2>1. arm' \in Arms /\ arm'.mode # "FEED" /\ arm'.cmd = {"DRIBBLE"}
    <3>1. {"DRIBBLE"} \in SUBSET Places
      OBVIOUS
    <3>2. arm' = ArmBack(s, a, roller', {"DRIBBLE"})
      BY <1>1, <3>1 DEF ArmBack
    <3> QED BY <3>1, <3>2, ArmAtEndType
  <2>2. shot' \in Shots /\ shot'.active = FALSE /\ shot'.pre = "IDLE"
    BY <1>0, <1>1, ShotEndedType
  <2> QED BY <1>0, <1>1, <2>1, <2>2 DEF After, Together, OnItsWay, Stopped
<1>2. CASE /\ arm' = [a EXCEPT !.mode = "DRIBBLE",
                               !.cmd = a.from \cup {"DRIBBLE"}]
           /\ shot' = s /\ belt' = spins /\ UNCHANGED clearance
  <2>1. arm' \in Arms /\ arm'.mode = "DRIBBLE"
    BY <1>2 DEF Arms
  <2> QED BY <1>0, <1>2, <2>1 DEF After, Together, OnItsWay, Stopped
<1> QED BY <1>1, <1>2 DEF Return

\* Outside a cycle the arm follows its mode, which is not FEED, or is moving.
LEMMA MovesInv ==
  ASSUME NEW in \in Inputs, NEW s \in Shots, NEW a \in Arms, NEW rpm \in Int,
         Together(s, a), clearance = s.active,
         belt \in {"NONE", "SPIN", "STOP"}, Moves(in, s, a, rpm)
  PROVE  After(in)
<1> DEFINE place == TargetPlace(in, s, a)
<1>1. ~s.active /\ ~in.stop /\ a.mode # "FEED"
  BY DEF Moves, Together, Running
<1>2. place \in Places \ {"FEED"}
  BY <1>1 DEF TargetPlace, Arms
<1>3. PICK ends \in BOOLEAN : arm' = Travelled(s, a, place, ends)
  BY DEF Moves
<1> HIDE DEF place
<1>4. /\ arm' \in Arms /\ arm'.mode = a.mode
      /\ "FEED" \in arm'.cmd => arm'.moving
  <2>1. CASE arm' = [a EXCEPT !.cmd = {place}]
    BY <1>2, <2>1 DEF Arms
  <2>2. CASE arm' = [a EXCEPT !.cmd = {place}, !.moving = FALSE]
    BY <1>2, <2>2 DEF Arms
  <2>3. CASE a.moving /\ arm' = [a EXCEPT !.cmd = a.from \cup {place}]
    <3>1. a.from \cup {place} \in SUBSET Places
      BY <1>2 DEF Arms
    <3>2. arm'.moving = a.moving
      BY <2>3 DEF Arms
    <3> QED BY <2>3, <3>1, <3>2 DEF Arms
  <2> QED BY <1>3, <2>1, <2>2, <2>3 DEF Travelled
<1>5. shot' \in Shots /\ shot'.active = s.active /\ (shot'.pre # "IDLE" => s.pre # "IDLE")
  BY DEF Moves, Shots
<1>6. roller' \in Int /\ belt' = belt /\ clearance' = clearance
  BY RollerType DEF Moves
<1> QED BY <1>1, <1>4, <1>5, <1>6 DEF After, Together, OnItsWay, Stopped

\* With the arm's driver down, or during the emergency stop, only the roller
\* and the held command are published.
LEMMA IdleInv ==
  ASSUME NEW in \in Inputs, NEW s \in Shots, NEW a \in Arms, NEW rpm \in Int,
         Together(s, a), clearance = s.active,
         belt \in {"NONE", "SPIN", "STOP"},
         ArmDown(in, s, a, rpm) \/ Held(in, s, a, rpm)
  PROVE  After(in)
<1>1. /\ roller' \in RollerSpeeds(in, s, a, rpm)
      /\ shot' = s /\ belt' = belt /\ clearance' = clearance
      /\ ~Running(in)
  BY DEF ArmDown, Held, Running
<1>2. roller' \in Int /\ (in.stop => roller' = 0)
  BY <1>1, RollerType, RollerStops
<1>3. arm' \in Arms /\ arm'.mode = a.mode /\ (in.stop /\ in.ready => arm'.cmd = arm'.hold)
  BY DEF ArmDown, Held, Arms
<1> QED BY <1>1, <1>2, <1>3 DEF After, Together, OnItsWay, Stopped

LEMMA ControlInv ==
  ASSUME NEW in \in Inputs, NEW s \in Shots, NEW a \in Arms, NEW rpm \in Int,
         Together(s, a), clearance = s.active,
         belt \in {"NONE", "SPIN", "STOP"}, Control(in, s, a, rpm)
  PROVE  IInv'
<1>1. After(in)
  <2>1. CASE ArmDown(in, s, a, rpm) \/ Held(in, s, a, rpm)
    BY <2>1, IdleInv
  <2>2. CASE Moves(in, s, a, rpm)
    BY <2>2, MovesInv
  <2>3. CASE Cycles(in, s, a, rpm)
    <3> DEFINE spins == IF s.auto THEN "SPIN" ELSE belt
    <3>1. /\ Running(in) /\ s.active /\ clearance = TRUE
          /\ roller' \in Int /\ spins \in {"NONE", "SPIN", "STOP"}
      BY <2>3, RollerType DEF Cycles, Shots
    <3>2. \/ Spinup(in, s, a, TRUE, spins) \/ Feed(s, a, spins)
          \/ Return(s, a, spins)
      BY <2>3, <3>1 DEF Cycles
    <3> HIDE DEF spins
    <3> QED BY <3>1, <3>2, SpinupInv, FeedInv, ReturnInv
  <2>4. CASE StartsAfterWait(in, s, a, rpm)
    <3> DEFINE started == ShotStarted(in, [s EXCEPT !.pre = "IDLE"])
               b == ArmAtStart(a)
    <3>1. started \in Shots /\ started.active /\ started.pre = "IDLE"
      BY DEF ShotStarted, Shots, Inputs
    <3>2. b \in Arms /\ b.mode = "DRIBBLE"
      BY DEF ArmAtStart, Arms
    <3>3. Together(started, b)
      BY <3>1, <3>2 DEF Together
    <3>4. BeltAtStart(in) \in {"NONE", "SPIN", "STOP"}
      BY DEF BeltAtStart
    <3>5. /\ Running(in)
          /\ \E r \in RollerSpeeds(in, s, a, rpm) :
               roller' \in RollerSpeeds(in, started, b, r)
          /\ Spinup(in, started, b, TRUE, BeltAtStart(in))
      BY <2>4 DEF StartsAfterWait
    <3> HIDE DEF started, b
    <3>6. roller' \in Int
      BY <3>1, <3>2, <3>5, RollerType
    <3> QED BY <3>1, <3>2, <3>3, <3>4, <3>5, <3>6, SpinupInv
  <2> QED BY <2>1, <2>2, <2>3, <2>4 DEF Control
<1>2. input' = in /\ shown' \in Phases \cup {"NONE", "IDLE"}
  BY DEF Control, Shots
<1>3. TypeOK'
  BY <1>1, <1>2 DEF After, TypeOK, Shots
<1> QED BY <1>1, <1>2, <1>3 DEF After, IInv, ClearanceFollowsCycle

-----------------------------------------------------------------------------
(***************************************************************************)
(* Every action.                                                           *)
(***************************************************************************)
LEMMA LaterType == \A n \in Nat : Later(n) \in Nat
BY DribbleAssumption DEF Later

LEMMA TickInv ==
  ASSUME IInv, Tick
  PROVE  IInv'
<1> DEFINE s == [shot EXCEPT !.wait = Later(@)]
           a == [arm EXCEPT !.age = Later(@)]
<1>1. input \in Inputs /\ roller \in Int /\ belt \in {"NONE", "SPIN", "STOP"}
  BY DEF IInv, TypeOK
<1>2. /\ s \in Shots /\ s.active = shot.active /\ s.pre = shot.pre
      /\ s.phase = shot.phase
  BY LaterType DEF IInv, TypeOK, Shots
<1>3. a \in Arms /\ a.mode = arm.mode
  BY LaterType DEF IInv, TypeOK, Arms
<1>4. clearance = s.active /\ Control(input, s, a, roller)
  BY <1>2 DEF IInv, ClearanceFollowsCycle, Tick
<1> HIDE DEF s, a
<1>5. Together(s, a)
  BY <1>2, <1>3 DEF IInv, Together
<1> QED BY <1>1, <1>2, <1>3, <1>4, <1>5, ControlInv

\* A trajectory that starts: the arm is moving, and keeps its command.
LEMMA StartMoveType ==
  ASSUME NEW a \in Arms, NEW rpm \in Int
  PROVE  /\ StartMove(a, rpm) \in Arms /\ StartMove(a, rpm).moving = TRUE
         /\ StartMove(a, rpm).mode = a.mode
         /\ StartMove(a, rpm).cmd = a.cmd /\ StartMove(a, rpm).hold = a.hold
BY DEF StartMove, Arms

MovedTo(a, rpm, mode) == [StartMove(a, rpm) EXCEPT !.mode = mode]

\* The same with the mode the trajectory goes to.
LEMMA MovedToType ==
  ASSUME NEW a \in Arms, NEW rpm \in Int, NEW mode \in Modes
  PROVE  /\ MovedTo(a, rpm, mode) \in Arms
         /\ MovedTo(a, rpm, mode).moving = TRUE
         /\ MovedTo(a, rpm, mode).mode = mode
BY DEF StartMove, MovedTo, Arms

\* An arm whose control is resumed belongs to a cycle or is moving.
LEMMA ResumeType ==
  ASSUME NEW s \in Shots, NEW a \in Arms, NEW at \in SUBSET Places, NEW rpm \in Int
  PROVE  /\ Resume(s, a, at, rpm) \in Arms /\ Resume(s, a, at, rpm).mode = a.mode
         /\ s.active \/ Resume(s, a, at, rpm).moving
BY DEF Resume, Arms

LEMMA PositionModeInv ==
  ASSUME IInv, PositionMode
  PROVE  IInv'
<1>1. PICK mode \in CommandedModes :
        LET moved == [StartMove(arm, roller) EXCEPT !.mode = mode]
            aborted == [shot EXCEPT !.active = FALSE, !.rollerOff = FALSE,
                                    !.pre = "IDLE"]
        IN /\ mode # "FEED" /\ ~input.stop
           /\ arm' = moved /\ shot' = aborted /\ clearance' = FALSE
           /\ roller' \in IF mode = "OPEN"
                          THEN RollerSpeeds(input, aborted, moved, 0)
                          ELSE {roller}
           /\ UNCHANGED <<input, belt, shown>>
  BY DEF PositionMode, PositionCommand, Accepted
<1>2. mode \in Modes \ {"FEED"}
  BY <1>1, DribbleAssumption
<1>3. arm' \in Arms /\ arm'.moving = TRUE /\ arm'.mode = mode
  <2>1. arm' = MovedTo(arm, roller, mode)
    BY <1>1 DEF MovedTo
  <2>2. arm \in Arms /\ roller \in Int /\ mode \in Modes
    BY <1>2 DEF IInv, TypeOK
  <2> QED BY <2>1, <2>2, MovedToType
<1>4. shot' \in Shots /\ shot'.active = FALSE /\ shot'.pre = "IDLE"
  BY <1>1 DEF IInv, TypeOK, Shots
<1>5. roller' \in Int
  BY <1>1, <1>3, <1>4, RollerType DEF IInv, TypeOK
<1>6. TypeOK'
  BY <1>1, <1>3, <1>4, <1>5 DEF IInv, TypeOK
<1> QED BY <1>1, <1>2, <1>3, <1>4, <1>6
        DEF IInv, Together, OnItsWay, Stopped, ClearanceFollowsCycle, Running

LEMMA ShotCycleRequestInv ==
  ASSUME IInv, ShotCycleRequest
  PROVE  IInv'
<1> DEFINE saving == [shot EXCEPT !.saved = arm.mode]
<1>1. /\ ~input.stop /\ ~shot.active /\ shot.pre = "IDLE"
      /\ arm.mode \in Modes \ {"FEED"} /\ UNCHANGED <<input, shown>>
  BY DEF ShotCycleRequest, IInv, Together, TypeOK, Arms
<1>2. saving \in Shots /\ saving.active = shot.active
  BY <1>1 DEF IInv, TypeOK, Shots
<1>3. CASE /\ shot' = [saving EXCEPT !.pre = "MOVING_TO_DRIBBLE"]
           /\ arm' = [StartMove(arm, roller) EXCEPT !.mode = "DRIBBLE"]
           /\ UNCHANGED <<roller, clearance, belt>>
  <2> HIDE DEF saving
  <2>1. shot' \in Shots /\ shot'.active = shot.active
    BY <1>2, <1>3 DEF Shots
  <2>2. arm' \in Arms /\ arm'.moving = TRUE /\ arm'.mode = "DRIBBLE"
    <3>1. arm' = MovedTo(arm, roller, "DRIBBLE")
      BY <1>3 DEF MovedTo
    <3> QED BY <3>1, MovedToType DEF IInv, TypeOK
  <2>3. TypeOK'
    BY <1>1, <1>3, <2>1, <2>2 DEF IInv, TypeOK
  <2> QED BY <1>1, <1>3, <2>1, <2>2, <2>3
          DEF IInv, Together, OnItsWay, Stopped, ClearanceFollowsCycle
<1>4. CASE /\ shot' = ShotStarted(input, saving)
           /\ arm' = ArmAtStart(arm)
           /\ roller' \in RollerSpeeds(input, shot', arm', roller)
           /\ clearance' = TRUE /\ belt' = BeltAtStart(input)
  <2> HIDE DEF saving
  <2>1. shot' \in Shots /\ shot'.active = TRUE /\ shot'.pre = saving.pre
    BY <1>2, <1>4 DEF ShotStarted, Shots, IInv, TypeOK, Inputs
  <2>2. arm' \in Arms /\ arm'.mode = "DRIBBLE"
    BY <1>4 DEF ArmAtStart, IInv, TypeOK, Arms
  <2>3. saving.pre = "IDLE"
    BY <1>1 DEF saving, IInv, TypeOK, Shots
  <2>4. roller' \in Int
    BY <1>4, <2>1, <2>2, RollerType DEF IInv, TypeOK
  <2>5. belt' \in {"NONE", "SPIN", "STOP"}
    BY <1>4 DEF BeltAtStart, IInv, TypeOK
  <2>6. TypeOK'
    BY <1>1, <1>4, <2>1, <2>2, <2>4, <2>5 DEF IInv, TypeOK
  <2> QED BY <1>1, <1>4, <2>1, <2>2, <2>3, <2>6
          DEF IInv, Together, OnItsWay, Stopped, ClearanceFollowsCycle
<1> QED BY <1>3, <1>4 DEF ShotCycleRequest

\* Both edges of the emergency stop are a period with the new inputs.
LEMMA EmergencyStopInv ==
  ASSUME IInv, EmergencyStopOn \/ EmergencyStopOff
  PROVE  IInv'
<1>0. /\ input \in Inputs /\ shot \in Shots /\ arm \in Arms /\ roller \in Int
      /\ belt \in {"NONE", "SPIN", "STOP"} /\ clearance = shot.active
      /\ input.pos \in Places /\ arm.cmd \in SUBSET Places
      /\ arm.hold \in SUBSET Places /\ Together(shot, arm)
  BY DEF IInv, TypeOK, Inputs, Arms, ClearanceFollowsCycle
<1>1. CASE EmergencyStopOn
  <2> DEFINE hold == IF input.ready THEN {input.pos} ELSE arm.cmd
             in == [input EXCEPT !.stop = TRUE]
             a == [arm EXCEPT !.hold = hold, !.cmd = hold]
  <2>1. hold \in SUBSET Places
    BY <1>0
  <2>2. Control(in, shot, a, 0)
    BY <1>1 DEF EmergencyStopOn
  <2> HIDE DEF hold
  <2>3. in \in Inputs
    BY <1>0 DEF Inputs
  <2>4. a \in Arms /\ a.mode = arm.mode
    BY <1>0, <2>1 DEF Arms
  <2> HIDE DEF in, a
  <2>5. Together(shot, a)
    BY <1>0, <2>4 DEF Together
  <2> QED BY <1>0, <2>2, <2>3, <2>4, <2>5, ControlInv
<1>2. CASE EmergencyStopOff
  <2> DEFINE at == IF input.ready THEN {input.pos} ELSE arm.hold
             in == [input EXCEPT !.stop = FALSE]
             a == Resume(shot, arm, at, 0)
  <2>1. at \in SUBSET Places
    BY <1>0
  <2>2. Control(in, shot, a, roller)
    BY <1>2 DEF EmergencyStopOff
  <2> HIDE DEF at
  <2>3. in \in Inputs
    BY <1>0 DEF Inputs
  <2>4. a \in Arms /\ a.mode = arm.mode
    BY <1>0, <2>1, ResumeType
  <2> HIDE DEF in, a
  <2>5. Together(shot, a)
    BY <1>0, <2>4 DEF Together
  <2> QED BY <1>0, <2>2, <2>3, <2>4, <2>5, ControlInv
<1> QED BY <1>1, <1>2

\* The first READY report resumes the arm, or holds it where it is.
LEMMA EduliteStateInv ==
  ASSUME IInv, EduliteState
  PROVE  IInv'
<1>0. /\ input \in Inputs /\ shot \in Shots /\ arm \in Arms /\ roller \in Int
      /\ UNCHANGED <<shot, roller, clearance, belt, shown>>
  BY DEF IInv, TypeOK, EduliteState
<1>1. CASE input' = [input EXCEPT !.ready = FALSE] /\ arm' = arm
  <2>1. input' \in Inputs /\ ~input'.ready /\ input'.stop = input.stop
    BY <1>0, <1>1 DEF Inputs
  <2> QED BY <1>0, <1>1, <2>1
          DEF IInv, TypeOK, Together, OnItsWay, Stopped, ClearanceFollowsCycle, Running
<1>2. ASSUME NEW pos \in ArmPositions,
             input' = [input EXCEPT !.ready = TRUE, !.pos = pos],
             LET held == [arm EXCEPT !.cmd = {pos}, !.hold = {pos}] IN
             arm' = IF input.ready THEN arm
                    ELSE IF input.stop THEN held
                    ELSE Resume(shot, held, {pos}, roller)
      PROVE  IInv'
  <2> DEFINE held == [arm EXCEPT !.cmd = {pos}, !.hold = {pos}]
  <2>1. pos \in Places /\ {pos} \in SUBSET Places
    BY DribbleAssumption
  <2>2. input' \in Inputs /\ input'.ready /\ input'.stop = input.stop
    BY <1>0, <1>2, <2>1 DEF Inputs
  <2>3. /\ held \in Arms /\ held.mode = arm.mode
        /\ held.cmd = {pos} /\ held.hold = {pos}
    BY <1>0, <2>1 DEF Arms
  <2>4. CASE input.ready
    BY <1>0, <1>2, <2>2, <2>4
    DEF IInv, TypeOK, Together, OnItsWay, Stopped, ClearanceFollowsCycle, Running
  <2>5. CASE ~input.ready /\ input.stop
    <3>1. arm' = held
      BY <1>2, <2>5
    <3> HIDE DEF held
    <3> QED BY <1>0, <2>2, <2>3, <2>5, <3>1
            DEF IInv, TypeOK, Together, OnItsWay, Stopped, ClearanceFollowsCycle,
                Running
  <2>6. CASE ~input.ready /\ ~input.stop
    <3>1. arm' = Resume(shot, held, {pos}, roller)
      BY <1>2, <2>6
    <3> HIDE DEF held
    <3>2. arm' \in Arms /\ arm'.mode = arm.mode /\ (shot.active \/ arm'.moving)
      BY <1>0, <2>1, <2>3, <3>1, ResumeType
    <3> QED BY <1>0, <2>2, <2>6, <3>2
            DEF IInv, TypeOK, Together, OnItsWay, Stopped, ClearanceFollowsCycle
  <2> QED BY <2>4, <2>5, <2>6
<1> QED BY <1>1, <1>2 DEF EduliteState

\* The slow fire of the spring starts a trajectory outside a cycle.
LEMMA SpringStateInv ==
  ASSUME IInv, NEW op \in Operations, SpringState(op)
  PROVE  IInv'
<1> DEFINE in == [input EXCEPT !.op = op]
<1>0. /\ shot \in Shots /\ arm \in Arms /\ roller \in Int
      /\ UNCHANGED <<shot, clearance, belt, shown>>
  BY DEF IInv, TypeOK, SpringState
<1>1. /\ input' = in /\ in \in Inputs /\ in.stop = input.stop
      /\ in.ready = input.ready
  BY DEF IInv, TypeOK, SpringState, Inputs
<1>2. \/ UNCHANGED <<arm, roller>>
      \/ /\ arm' = StartMove(arm, roller)
         /\ roller' \in RollerSpeeds(in, shot, arm', 0) \cup {roller}
  BY DEF SpringState
<1> HIDE DEF in
<1>3. CASE UNCHANGED <<arm, roller>>
  BY <1>0, <1>1, <1>3
  DEF IInv, TypeOK, Together, OnItsWay, Stopped, ClearanceFollowsCycle, Running
<1>4. CASE /\ arm' = StartMove(arm, roller)
           /\ roller' \in RollerSpeeds(in, shot, arm', 0) \cup {roller}
  <2>1. /\ arm' \in Arms /\ arm'.moving = TRUE /\ arm'.mode = arm.mode
        /\ arm'.cmd = arm.cmd /\ arm'.hold = arm.hold
    BY <1>0, <1>4, StartMoveType
  <2>2. roller' \in Int /\ (in.stop => roller' \in {0, roller})
    BY <1>0, <1>1, <1>4, <2>1, RollerType, RollerStops
  <2> QED BY <1>0, <1>1, <2>1, <2>2
          DEF IInv, TypeOK, Together, OnItsWay, Stopped, ClearanceFollowsCycle
<1> QED BY <1>2, <1>3, <1>4

LEMMA StepInv == IInv /\ [Next]_vars => IInv'
<1> SUFFICES ASSUME IInv, [Next]_vars PROVE IInv'
  OBVIOUS
<1>1. CASE Tick
  BY <1>1, TickInv
<1>2. CASE PositionMode
  BY <1>2, PositionModeInv
<1>3. CASE DribbleEnabled \/ VescState
  <2>1. /\ input' \in Inputs /\ input'.stop = input.stop
        /\ input'.ready = input.ready
    BY <1>3, DribbleAssumption DEF DribbleEnabled, VescState, IInv, TypeOK, Inputs
  <2>2. UNCHANGED <<shot, arm, roller, clearance, belt, shown>>
    BY <1>3 DEF DribbleEnabled, VescState
  <2> QED BY <2>1, <2>2
          DEF IInv, TypeOK, Together, OnItsWay, Stopped, ClearanceFollowsCycle, Running
<1>4. CASE ShotCycleRequest
  BY <1>4, ShotCycleRequestInv
<1>5. CASE EmergencyStopOn \/ EmergencyStopOff
  BY <1>5, EmergencyStopInv
<1>6. CASE EduliteState
  BY <1>6, EduliteStateInv
<1>7. CASE SpringOperationState
  <2>1. PICK op \in SpringOperations : SpringState(op)
    BY <1>7 DEF SpringOperationState
  <2>2. op \in Operations
    BY DribbleAssumption
  <2> QED BY <2>1, <2>2, SpringStateInv
<1>8. CASE UNCHANGED vars
  BY <1>8 DEF vars, IInv, TypeOK, Together, OnItsWay, Stopped,
              ClearanceFollowsCycle, Running
<1> QED BY <1>1, <1>2, <1>3, <1>4, <1>5, <1>6, <1>7, <1>8 DEF Next, Callbacks

LEMMA InitInv == Init => IInv
<1> SUFFICES ASSUME Init PROVE IInv
  OBVIOUS
<1>1. input \in Inputs /\ input.stop = TRUE /\ input.ready = FALSE
  BY DEF Init, Inputs
<1>2. shot \in Shots /\ shot.active = FALSE /\ shot.pre = "IDLE"
  BY DEF Init, Shots
<1>3. arm \in Arms /\ arm.mode = "DRIBBLE"
  BY DEF Init, Arms
<1>4. /\ roller = 0 /\ clearance = FALSE /\ belt = "NONE" /\ shown = "NONE"
  BY DEF Init
<1>5. clearance \in BOOLEAN
  BY <1>4
<1>6. TypeOK
  <2>1. roller \in Int
    BY <1>4
  <2>2. belt \in {"NONE", "SPIN", "STOP"} /\ shown \in Phases \cup {"NONE", "IDLE"}
    BY <1>4
  <2> QED BY <1>1, <1>2, <1>3, <1>5, <2>1, <2>2 DEF TypeOK
<1>7. Together(shot, arm)
  BY <1>2, <1>3 DEF Together
<1>8. OnItsWay(input, shot, arm)
  BY <1>1 DEF OnItsWay, Running
<1>9. Stopped(input, arm, roller)
  BY <1>1, <1>4 DEF Stopped
<1> QED BY <1>2, <1>4, <1>6, <1>7, <1>8, <1>9 DEF IInv, ClearanceFollowsCycle

-----------------------------------------------------------------------------
(***************************************************************************)
(* Shot cycles that no manual position aborts.                             *)
(***************************************************************************)
\* The belts spin for an active cycle that started them.
SpinsForCycle(s, b) == b = "SPIN" => s.active /\ s.auto

LEMMA SpinupBelts ==
  ASSUME NEW in, NEW s \in Shots, NEW a, s.active, NEW asked, NEW spins,
         spins = "SPIN" => s.auto, Spinup(in, s, a, asked, spins)
  PROVE  SpinsForCycle(shot', belt')
<1>1. CASE belt' = IF s.auto THEN "STOP" ELSE spins
  BY <1>1 DEF SpinsForCycle
<1>2. CASE shot' \in {s, [s EXCEPT !.phase = "FEEDING", !.rollerOff = FALSE]}
           /\ belt' = spins
  <2>1. shot'.active = s.active /\ shot'.auto = s.auto
    BY <1>2 DEF Shots
  <2> QED BY <1>2, <2>1 DEF SpinsForCycle
<1> QED BY <1>1, <1>2 DEF Spinup

LEMMA CyclesBelts ==
  ASSUME NEW in, NEW s \in Shots, NEW a, NEW rpm, SpinsForCycle(s, belt),
         Cycles(in, s, a, rpm)
  PROVE  SpinsForCycle(shot', belt')
<1> DEFINE spins == IF s.auto THEN "SPIN" ELSE belt
<1>1. s.active /\ (spins = "SPIN" => s.auto)
  BY DEF Cycles, SpinsForCycle
<1>2. \/ Spinup(in, s, a, clearance, spins) \/ Feed(s, a, spins)
      \/ Return(s, a, spins)
  BY DEF Cycles
<1> HIDE DEF spins
<1>3. CASE Spinup(in, s, a, clearance, spins)
  BY <1>1, <1>3, SpinupBelts
<1>4. CASE Feed(s, a, spins)
  <2>1. /\ belt' = spins
        /\ \/ shot' = [s EXCEPT !.phase = "RETURNING", !.rollerOff = FALSE]
           \/ \E stops \in BOOLEAN : shot' = [s EXCEPT !.rollerOff = @ \/ stops]
    BY <1>4 DEF Feed
  <2>2. shot'.active = s.active /\ shot'.auto = s.auto
    BY <2>1 DEF Shots
  <2> QED BY <1>1, <2>1, <2>2 DEF SpinsForCycle
<1>5. CASE Return(s, a, spins)
  <2>1. \/ belt' = IF s.auto THEN "STOP" ELSE spins
        \/ shot' = s /\ belt' = spins
    BY <1>5 DEF Return
  <2> QED BY <1>1, <2>1 DEF SpinsForCycle
<1> QED BY <1>2, <1>3, <1>4, <1>5

LEMMA ControlBelts ==
  ASSUME NEW in \in Inputs, NEW s \in Shots, NEW a, NEW rpm,
         SpinsForCycle(s, belt), Control(in, s, a, rpm)
  PROVE  SpinsForCycle(shot', belt')
<1>1. CASE ArmDown(in, s, a, rpm) \/ Held(in, s, a, rpm)
  BY <1>1 DEF ArmDown, Held
<1>2. CASE Moves(in, s, a, rpm)
  <2>1. shot' \in {s, [s EXCEPT !.pre = "WAITING", !.wait = 0]} /\ belt' = belt
    BY <1>2 DEF Moves
  <2>2. shot'.active = s.active /\ shot'.auto = s.auto
    BY <2>1 DEF Shots
  <2> QED BY <2>1, <2>2 DEF SpinsForCycle
<1>3. CASE Cycles(in, s, a, rpm)
  BY <1>3, CyclesBelts
<1>4. CASE StartsAfterWait(in, s, a, rpm)
  <2> DEFINE started == ShotStarted(in, [s EXCEPT !.pre = "IDLE"])
  <2>1. /\ started \in Shots /\ started.active
        /\ started.auto = in.beltsStopped
    BY DEF ShotStarted, Shots, Inputs
  <2>2. ~s.active /\ Spinup(in, started, ArmAtStart(a), TRUE, BeltAtStart(in))
    BY <1>4 DEF StartsAfterWait
  <2>3. BeltAtStart(in) = "SPIN" => started.auto
    BY <2>1, <2>2 DEF BeltAtStart, SpinsForCycle
  <2> HIDE DEF started
  <2> QED BY <2>1, <2>2, <2>3, SpinupBelts
<1> QED BY <1>1, <1>2, <1>3, <1>4 DEF Control

\* Every step but a manual position that aborts the cycle.
LEMMA BeltsStep ==
  ASSUME IInv, SpinsForCycle(shot, belt), [Next]_vars, ~PositionMode
  PROVE  SpinsForCycle(shot', belt')
<1>0. input \in Inputs /\ shot \in Shots
  BY DEF IInv, TypeOK
<1>1. CASE Tick
  <2> DEFINE s == [shot EXCEPT !.wait = Later(@)]
             a == [arm EXCEPT !.age = Later(@)]
  <2>1. s \in Shots /\ s.active = shot.active /\ s.auto = shot.auto
    BY <1>0, LaterType DEF Shots
  <2>2. Control(input, s, a, roller)
    BY <1>1 DEF Tick
  <2> HIDE DEF s, a
  <2>3. SpinsForCycle(s, belt)
    BY <2>1 DEF SpinsForCycle
  <2> QED BY <1>0, <2>1, <2>2, <2>3, ControlBelts
<1>2. CASE EmergencyStopOn \/ EmergencyStopOff
  <2>1. \A b \in BOOLEAN : [input EXCEPT !.stop = b] \in Inputs
    BY <1>0 DEF Inputs
  <2>2. \E b \in BOOLEAN : \E a, rpm :
          Control([input EXCEPT !.stop = b], shot, a, rpm)
    BY <1>2 DEF EmergencyStopOn, EmergencyStopOff
  <2> QED BY <1>0, <2>1, <2>2, ControlBelts
<1>3. CASE ShotCycleRequest
  <2> DEFINE saving == [shot EXCEPT !.saved = arm.mode]
  <2>1. ~shot.active
    BY <1>3 DEF ShotCycleRequest
  <2>2. \/ belt' = belt
        \/ shot' = ShotStarted(input, saving) /\ belt' = BeltAtStart(input)
    BY <1>3 DEF ShotCycleRequest
  <2>3. ASSUME shot' = ShotStarted(input, saving)
        PROVE  shot'.active /\ shot'.auto = input.beltsStopped
    BY <1>0, <2>3 DEF ShotStarted, Shots
  <2> HIDE DEF saving
  <2> QED BY <2>1, <2>2, <2>3 DEF BeltAtStart, SpinsForCycle
<1>4. CASE \/ DribbleEnabled \/ EduliteState \/ VescState
           \/ SpringOperationState \/ UNCHANGED vars
  BY <1>4 DEF DribbleEnabled, EduliteState, VescState, SpringOperationState,
              SpringState, vars
<1> QED BY <1>1, <1>2, <1>3, <1>4 DEF Next, Callbacks

\* A cycle that ends by itself leaves the arm commanded to DRIBBLE.
LEMMA EndsInDribble ==
  ASSUME NEW s \in Shots, NEW a \in Arms, NEW rpm \in Int,
         arm' = [ArmAtEnd(s, a, rpm) EXCEPT !.cmd = {"DRIBBLE"}]
  PROVE  arm'.cmd = {"DRIBBLE"}
<1>1. arm' = ArmBack(s, a, rpm, {"DRIBBLE"}) /\ {"DRIBBLE"} \in SUBSET Places
  BY DEF ArmBack
<1> QED BY <1>1, ArmAtEndType

LEMMA SpinupReleases ==
  ASSUME NEW in, NEW s \in Shots, NEW a \in Arms, a.mode = "DRIBBLE",
         roller' \in Int, NEW spins, Spinup(in, s, a, TRUE, spins), ~clearance'
  PROVE  arm'.cmd = {"DRIBBLE"}
<1>1. arm' = [ArmAtEnd(s, a, roller') EXCEPT !.cmd = {"DRIBBLE"}]
  BY DEF Spinup
<1> QED BY <1>1, EndsInDribble

\* A control period withdraws the clearance only at the end of a cycle.
LEMMA ControlReleases ==
  ASSUME NEW in \in Inputs, NEW s \in Shots, NEW a \in Arms, NEW rpm \in Int,
         Together(s, a), clearance = TRUE, Control(in, s, a, rpm), ~clearance'
  PROVE  arm'.cmd = {"DRIBBLE"}
<1>1. ~ArmDown(in, s, a, rpm) /\ ~Held(in, s, a, rpm) /\ ~Moves(in, s, a, rpm)
  BY DEF ArmDown, Held, Moves
<1>2. CASE Cycles(in, s, a, rpm)
  <2>1. roller' \in Int /\ s.active
    BY <1>2, RollerType DEF Cycles
  <2>2. CASE \E spins : Spinup(in, s, a, TRUE, spins)
    <3>1. a.mode = "DRIBBLE"
      BY <2>1, <2>2 DEF Spinup, Together
    <3> QED BY <2>1, <2>2, <3>1, SpinupReleases
  <2>3. CASE \E spins : Feed(s, a, spins)
    BY <2>3 DEF Feed
  <2>4. CASE \E spins : Return(s, a, spins)
    <3>1. arm' = [ArmAtEnd(s, a, roller') EXCEPT !.cmd = {"DRIBBLE"}]
      BY <2>4 DEF Return
    <3> QED BY <2>1, <3>1, EndsInDribble
  <2> QED BY <1>2, <2>2, <2>3, <2>4 DEF Cycles
<1>3. CASE StartsAfterWait(in, s, a, rpm)
  <2> DEFINE started == ShotStarted(in, [s EXCEPT !.pre = "IDLE"])
             b == ArmAtStart(a)
  <2>1. started \in Shots
    BY DEF ShotStarted, Shots, Inputs
  <2>2. b \in Arms /\ b.mode = "DRIBBLE"
    BY DEF ArmAtStart, Arms
  <2>3. /\ \E r \in RollerSpeeds(in, s, a, rpm) :
             roller' \in RollerSpeeds(in, started, b, r)
        /\ Spinup(in, started, b, TRUE, BeltAtStart(in))
    BY <1>3 DEF StartsAfterWait
  <2> HIDE DEF started, b
  <2>4. roller' \in Int
    BY <2>1, <2>2, <2>3, RollerType
  <2> QED BY <2>1, <2>2, <2>3, <2>4, SpinupReleases
<1> QED BY <1>1, <1>2, <1>3 DEF Control

\* Every step but a manual position that aborts the cycle.
LEMMA ReleaseStep ==
  ASSUME IInv, [Next]_vars, ~PositionMode, clearance, ~clearance'
  PROVE  "FEED" \notin arm'.cmd
<1>0. /\ input \in Inputs /\ shot \in Shots /\ arm \in Arms /\ roller \in Int
      /\ clearance = TRUE /\ Together(shot, arm)
      /\ input.pos \in Places /\ arm.cmd \in SUBSET Places
      /\ arm.hold \in SUBSET Places
  BY DEF IInv, TypeOK, Inputs, Arms
<1>1. CASE Tick
  <2> DEFINE s == [shot EXCEPT !.wait = Later(@)]
             a == [arm EXCEPT !.age = Later(@)]
  <2>1. /\ s \in Shots /\ s.active = shot.active /\ s.pre = shot.pre
        /\ s.phase = shot.phase
    BY <1>0, LaterType DEF Shots
  <2>2. a \in Arms /\ a.mode = arm.mode
    BY <1>0, LaterType DEF Arms
  <2>3. Control(input, s, a, roller)
    BY <1>1 DEF Tick
  <2> HIDE DEF s, a
  <2>4. Together(s, a)
    BY <1>0, <2>1, <2>2 DEF Together
  <2> QED BY <1>0, <2>1, <2>2, <2>3, <2>4, ControlReleases
<1>2. CASE EmergencyStopOn
  <2> DEFINE hold == IF input.ready THEN {input.pos} ELSE arm.cmd
             in == [input EXCEPT !.stop = TRUE]
             a == [arm EXCEPT !.hold = hold, !.cmd = hold]
  <2>1. Control(in, shot, a, 0)
    BY <1>2 DEF EmergencyStopOn
  <2>2. in.stop = TRUE
    BY <1>0 DEF Inputs
  <2> HIDE DEF in, a
  <2>3. clearance' = clearance
    BY <2>1, <2>2
    DEF Control, ArmDown, Held, Moves, Cycles, StartsAfterWait, Running
  <2> QED BY <2>3
<1>3. CASE EmergencyStopOff
  <2> DEFINE at == IF input.ready THEN {input.pos} ELSE arm.hold
             in == [input EXCEPT !.stop = FALSE]
             a == Resume(shot, arm, at, 0)
  <2>1. at \in SUBSET Places /\ in \in Inputs
    BY <1>0 DEF Inputs
  <2>2. Control(in, shot, a, roller)
    BY <1>3 DEF EmergencyStopOff
  <2> HIDE DEF at, in
  <2>3. a \in Arms /\ a.mode = arm.mode
    BY <1>0, <2>1, ResumeType
  <2> HIDE DEF a
  <2>4. Together(shot, a)
    BY <1>0, <2>3 DEF Together
  <2> QED BY <1>0, <2>1, <2>2, <2>3, <2>4, ControlReleases
<1>4. CASE \/ DribbleEnabled \/ ShotCycleRequest \/ EduliteState \/ VescState
           \/ SpringOperationState \/ UNCHANGED vars
  BY <1>4 DEF DribbleEnabled, ShotCycleRequest, EduliteState, VescState,
              SpringOperationState, SpringState, vars
<1> QED BY <1>1, <1>2, <1>3, <1>4 DEF Next, Callbacks

-----------------------------------------------------------------------------
(***************************************************************************)
(* An arm at rest.                                                         *)
(***************************************************************************)
\* RestsWhereAsked for given inputs, shot and arm, news being shown.
Rests(in, s, a, news) ==
  Running(in) /\ ~s.active /\ ~a.moving =>
    \/ a.cmd = {TargetPlace(in, s, a)}
    \/ Slow(in) /\ a.cmd = {"DRIBBLE"} /\ news \in Phases

\* A cycle that ends and does not start a trajectory leaves the arm in DRIBBLE.
LEMMA EndRests ==
  ASSUME NEW in, NEW s \in Shots, NEW a \in Arms, NEW rpm \in Int,
         arm' = [ArmAtEnd(s, a, rpm) EXCEPT !.cmd = {"DRIBBLE"}]
  PROVE  Rests(in, shot', arm', s.phase)
<1>1. arm'.cmd = {"DRIBBLE"}
  BY EndsInDribble
<1>2. CASE s.saved = "DRIBBLE"
  <2>1. arm' = [[a EXCEPT !.mode = "DRIBBLE"] EXCEPT !.cmd = {"DRIBBLE"}]
    BY <1>2 DEF ArmAtEnd
  <2>2. arm'.mode = "DRIBBLE"
    BY <2>1 DEF Arms
  <2> QED BY <1>1, <2>2 DEF Rests, TargetPlace, Shots
<1>3. CASE s.saved # "DRIBBLE"
  <2>1. arm' = [MovedTo(a, rpm, s.saved) EXCEPT !.cmd = {"DRIBBLE"}]
    BY <1>3 DEF ArmAtEnd, MovedTo
  <2>2. MovedTo(a, rpm, s.saved) \in Arms /\ MovedTo(a, rpm, s.saved).moving = TRUE
    BY MovedToType DEF Shots
  <2>3. arm'.moving = TRUE
    BY <2>1, <2>2 DEF Arms
  <2> QED BY <2>3 DEF Rests
<1> QED BY <1>2, <1>3

LEMMA CyclesRests ==
  ASSUME NEW in \in Inputs, NEW s \in Shots, NEW a \in Arms, NEW rpm \in Int,
         Together(s, a), Cycles(in, s, a, rpm)
  PROVE  Rests(in, shot', arm', s.phase)
<1>1. s.active /\ roller' \in Int
  BY RollerType DEF Cycles
<1>2. CASE \E asked, spins : Spinup(in, s, a, asked, spins)
  <2>1. a.mode = "DRIBBLE"
    BY <1>1, <1>2 DEF Spinup, Together
  <2>2. CASE arm' = [ArmAtEnd(s, a, roller') EXCEPT !.cmd = {a.mode}]
    BY <1>1, <2>1, <2>2, EndRests
  <2>3. CASE shot' \in {s, [s EXCEPT !.phase = "FEEDING", !.rollerOff = FALSE]}
    <3>1. shot'.active = s.active
      BY <2>3 DEF Shots
    <3> QED BY <1>1, <3>1 DEF Rests
  <2> QED BY <1>2, <2>2, <2>3 DEF Spinup
<1>3. CASE \E spins : Feed(s, a, spins)
  <2>1. \/ shot' = [s EXCEPT !.phase = "RETURNING", !.rollerOff = FALSE]
        \/ \E stops \in BOOLEAN : shot' = [s EXCEPT !.rollerOff = @ \/ stops]
    BY <1>3 DEF Feed
  <2>2. shot'.active = s.active
    BY <2>1 DEF Shots
  <2> QED BY <1>1, <2>2 DEF Rests
<1>4. CASE \E spins : Return(s, a, spins)
  <2>1. CASE arm' = [ArmAtEnd(s, a, roller') EXCEPT !.cmd = {"DRIBBLE"}]
    BY <1>1, <2>1, EndRests
  <2>2. CASE shot' = s
    BY <1>1, <2>2 DEF Rests
  <2> QED BY <1>4, <2>1, <2>2 DEF Return
<1> QED BY <1>2, <1>3, <1>4 DEF Cycles

\* Outside a cycle the period itself takes an arm at rest to its place.
LEMMA MovesRests ==
  ASSUME NEW in \in Inputs, NEW s \in Shots, NEW a \in Arms, NEW rpm, NEW news,
         Moves(in, s, a, rpm)
  PROVE  Rests(in, shot', arm', news)
<1> DEFINE place == TargetPlace(in, s, a)
<1>1. PICK ends \in BOOLEAN : arm' = Travelled(s, a, place, ends)
  BY DEF Moves
<1>2. ~s.active /\ shot' \in {s, [s EXCEPT !.pre = "WAITING", !.wait = 0]}
  BY DEF Moves
<1>3. shot'.active = FALSE
  BY <1>2 DEF Shots
<1> HIDE DEF place
<1>4. \/ arm' \in {[a EXCEPT !.cmd = {place}],
                    [a EXCEPT !.cmd = {place}, !.moving = FALSE]}
      \/ a.moving /\ arm' = [a EXCEPT !.cmd = a.from \cup {place}]
  BY <1>1 DEF Travelled
<1>5. CASE arm' \in {[a EXCEPT !.cmd = {place}],
                    [a EXCEPT !.cmd = {place}, !.moving = FALSE]}
  <2>1. arm'.cmd = {place} /\ arm'.mode = a.mode
    BY <1>5 DEF Arms
  <2> QED BY <1>2, <1>3, <2>1 DEF Rests, TargetPlace, place
<1>6. CASE a.moving /\ arm' = [a EXCEPT !.cmd = a.from \cup {place}]
  <2>1. arm'.moving = a.moving
    BY <1>6 DEF Arms
  <2> QED BY <1>6, <2>1 DEF Rests
<1> QED BY <1>4, <1>5, <1>6

LEMMA ControlRests ==
  ASSUME NEW in \in Inputs, NEW s \in Shots, NEW a \in Arms, NEW rpm \in Int,
         ClearanceTimeout > 0, Together(s, a), Control(in, s, a, rpm)
  PROVE  Rests(in, shot', arm', shown') /\ input' = in
<1>0. input' = in /\ shown' = IF s.active THEN s.phase ELSE "IDLE"
  BY DEF Control
<1>1. CASE ArmDown(in, s, a, rpm) \/ Held(in, s, a, rpm)
  BY <1>0, <1>1 DEF ArmDown, Held, Rests, Running
<1>2. CASE Moves(in, s, a, rpm)
  BY <1>0, <1>2, MovesRests
<1>3. CASE Cycles(in, s, a, rpm)
  <2>1. shown' = s.phase
    BY <1>0, <1>3 DEF Cycles
  <2> QED BY <1>0, <1>3, <2>1, CyclesRests
<1>4. CASE StartsAfterWait(in, s, a, rpm)
  <2> DEFINE started == ShotStarted(in, [s EXCEPT !.pre = "IDLE"])
             b == ArmAtStart(a)
  <2>1. started \in Shots /\ started.active
    BY DEF ShotStarted, Shots, Inputs
  <2>2. b.age = 0
    BY DEF ArmAtStart, Arms
  <2>3. Spinup(in, started, b, TRUE, BeltAtStart(in))
    BY <1>4 DEF StartsAfterWait
  <2>4. ~(b.age >= ClearanceTimeout)
    BY <2>2, DribbleAssumption
  <2> HIDE DEF started, b
  <2>5. shot' \in {started, [started EXCEPT !.phase = "FEEDING",
                                            !.rollerOff = FALSE]}
    BY <2>3, <2>4 DEF Spinup
  <2>6. shot'.active
    BY <2>1, <2>5 DEF Shots
  <2> QED BY <1>0, <2>6 DEF Rests
<1> QED BY <1>1, <1>2, <1>3, <1>4 DEF Control

LEMMA RestsStep ==
  ASSUME ClearanceTimeout > 0, IInv, RestsWhereAsked, [Next]_vars
  PROVE  RestsWhereAsked'
<1>0. /\ input \in Inputs /\ shot \in Shots /\ arm \in Arms /\ roller \in Int
      /\ Together(shot, arm) /\ Rests(input, shot, arm, shown)
      /\ input.pos \in Places /\ arm.hold \in SUBSET Places
      /\ arm.cmd \in SUBSET Places
  BY DEF IInv, TypeOK, Inputs, Arms, RestsWhereAsked, Rests
<1> SUFFICES Rests(input', shot', arm', shown')
  BY DEF RestsWhereAsked, Rests
<1>1. CASE Tick
  <2> DEFINE s == [shot EXCEPT !.wait = Later(@)]
             a == [arm EXCEPT !.age = Later(@)]
  <2>1. /\ s \in Shots /\ s.active = shot.active /\ s.pre = shot.pre
        /\ s.phase = shot.phase
    BY <1>0, LaterType DEF Shots
  <2>2. a \in Arms /\ a.mode = arm.mode
    BY <1>0, LaterType DEF Arms
  <2>3. Control(input, s, a, roller)
    BY <1>1 DEF Tick
  <2> HIDE DEF s, a
  <2>4. Together(s, a)
    BY <1>0, <2>1, <2>2 DEF Together
  <2> QED BY <1>0, <2>1, <2>2, <2>3, <2>4, ControlRests
<1>2. CASE PositionMode
  <2>1. PICK mode \in CommandedModes : PositionCommand(mode)
    BY <1>2 DEF PositionMode
  <2>2. arm' = MovedTo(arm, roller, mode) /\ mode \in Modes
    BY <2>1, DribbleAssumption DEF PositionCommand, MovedTo
  <2>3. arm'.moving = TRUE
    BY <1>0, <2>2, MovedToType
  <2> QED BY <2>3 DEF Rests
<1>3. CASE DribbleEnabled \/ VescState
  <2>1. /\ input'.stop = input.stop /\ input'.ready = input.ready
        /\ input'.op = input.op
    BY <1>0, <1>3 DEF DribbleEnabled, VescState, Inputs
  <2>2. UNCHANGED <<shot, arm, shown>>
    BY <1>3 DEF DribbleEnabled, VescState
  <2> QED BY <1>0, <2>1, <2>2 DEF Rests, Running, TargetPlace, Slow
<1>4. CASE ShotCycleRequest
  <2>1. CASE arm' = [StartMove(arm, roller) EXCEPT !.mode = "DRIBBLE"]
    <3>1. arm' = MovedTo(arm, roller, "DRIBBLE")
      BY <2>1 DEF MovedTo
    <3>2. arm'.moving = TRUE
      BY <1>0, <3>1, MovedToType
    <3> QED BY <3>2 DEF Rests
  <2>2. CASE shot' = ShotStarted(input, [shot EXCEPT !.saved = arm.mode])
    <3>1. shot'.active
      BY <1>0, <2>2 DEF ShotStarted, Shots
    <3> QED BY <3>1 DEF Rests
  <2> QED BY <1>4, <2>1, <2>2 DEF ShotCycleRequest
<1>5. CASE EmergencyStopOn
  <2> DEFINE in == [input EXCEPT !.stop = TRUE]
  <2>1. PICK a, rpm : Control(in, shot, a, rpm)
    BY <1>5 DEF EmergencyStopOn
  <2>2. input' = in /\ ~Running(in)
    BY <1>0, <2>1 DEF Control, Running, Inputs
  <2> QED BY <2>2 DEF Rests
<1>6. CASE EmergencyStopOff
  <2> DEFINE at == IF input.ready THEN {input.pos} ELSE arm.hold
             in == [input EXCEPT !.stop = FALSE]
             a == Resume(shot, arm, at, 0)
  <2>1. at \in SUBSET Places /\ in \in Inputs
    BY <1>0 DEF Inputs
  <2>2. Control(in, shot, a, roller)
    BY <1>6 DEF EmergencyStopOff
  <2> HIDE DEF at, in
  <2>3. a \in Arms /\ a.mode = arm.mode
    BY <1>0, <2>1, ResumeType
  <2> HIDE DEF a
  <2>4. Together(shot, a)
    BY <1>0, <2>3 DEF Together
  <2> QED BY <1>0, <2>1, <2>2, <2>3, <2>4, ControlRests
<1>7. CASE EduliteState
  <2>0. UNCHANGED <<shot, shown>>
    BY <1>7 DEF EduliteState
  <2>1. CASE input' = [input EXCEPT !.ready = FALSE]
    BY <1>0, <2>1 DEF Rests, Running, Inputs
  <2>2. CASE \E pos \in ArmPositions :
               LET held == [arm EXCEPT !.cmd = {pos}, !.hold = {pos}] IN
               /\ input' = [input EXCEPT !.ready = TRUE, !.pos = pos]
               /\ arm' = IF input.ready THEN arm
                         ELSE IF input.stop THEN held
                         ELSE Resume(shot, held, {pos}, roller)
    <3>1. PICK pos \in ArmPositions :
            LET held == [arm EXCEPT !.cmd = {pos}, !.hold = {pos}] IN
            /\ input' = [input EXCEPT !.ready = TRUE, !.pos = pos]
            /\ arm' = IF input.ready THEN arm
                      ELSE IF input.stop THEN held
                      ELSE Resume(shot, held, {pos}, roller)
      BY <2>2
    <3> DEFINE held == [arm EXCEPT !.cmd = {pos}, !.hold = {pos}]
    <3>2. pos \in Places /\ input'.stop = input.stop /\ input'.op = input.op
      BY <1>0, <3>1, DribbleAssumption DEF Inputs
    <3>3. held \in Arms
      BY <1>0, <3>2 DEF Arms
    <3>4. CASE input.ready
      BY <1>0, <2>0, <3>1, <3>2, <3>4 DEF Rests, Running, TargetPlace, Slow
    <3>5. CASE ~input.ready /\ input.stop
      BY <3>2, <3>5 DEF Rests, Running
    <3>6. CASE ~input.ready /\ ~input.stop
      <4>1. arm' = Resume(shot, held, {pos}, roller) /\ {pos} \in SUBSET Places
        BY <3>1, <3>2, <3>6
      <4>2. shot.active \/ arm'.moving
        BY <1>0, <3>3, <4>1, ResumeType
      <4> QED BY <2>0, <4>2 DEF Rests
    <3> QED BY <3>4, <3>5, <3>6
  <2> QED BY <1>7, <2>1, <2>2 DEF EduliteState
<1>8. CASE SpringOperationState
  <2>1. PICK op \in SpringOperations : SpringState(op)
    BY <1>8 DEF SpringOperationState
  <2> DEFINE in == [input EXCEPT !.op = op]
  <2>2. input' = in /\ UNCHANGED <<shot, shown>>
    BY <2>1 DEF SpringState
  <2>3. CASE Slow(in) = Slow(input) /\ arm' = arm
    <3>1. Running(in) = Running(input)
      BY <1>0 DEF Running, Inputs
    <3> QED BY <1>0, <2>2, <2>3, <3>1 DEF Rests, TargetPlace
  <2>4. CASE shot.active
    BY <2>2, <2>4 DEF Rests
  <2>5. CASE arm' = StartMove(arm, roller)
    <3>1. arm'.moving = TRUE
      BY <1>0, <2>5, StartMoveType
    <3> QED BY <3>1 DEF Rests
  <2> QED BY <2>1, <2>3, <2>4, <2>5 DEF SpringState
<1>9. CASE UNCHANGED vars
  BY <1>0, <1>9 DEF vars
<1> QED BY <1>1, <1>2, <1>3, <1>4, <1>5, <1>6, <1>7, <1>8, <1>9
        DEF Next, Callbacks

-----------------------------------------------------------------------------
(***************************************************************************)
(* The theorems.                                                           *)
(***************************************************************************)
\* The invariant of every behaviour of the controller.
THEOREM Invariance == Spec => []IInv
BY InitInv, StepInv, PTL DEF Spec

\* Every variable keeps its type; in particular no shot ever saves FEED as the
\* mode to go back to.
THEOREM TypeCorrect == Spec => []TypeOK
<1>1. IInv => TypeOK BY DEF IInv
<1> QED BY <1>1, Invariance, PTL

\* The spring is asked for clearance exactly while a shot cycle is active.
THEOREM SpringLentDuringCycle == Spec => []ClearanceFollowsCycle
<1>1. IInv => ClearanceFollowsCycle BY DEF IInv
<1> QED BY <1>1, Invariance, PTL

\* The arm never stands in front of the belts outside a cycle.
THEOREM ArmLeavesFeed == Spec => []NeverParksInFeed
<1>1. IInv => NeverParksInFeed BY DEF IInv, OnItsWay, NeverParksInFeed
<1> QED BY <1>1, Invariance, PTL

\* The emergency stop holds the arm and stops the roller.
THEOREM EmergencyStopHolds == Spec => []HoldsDuringEmergencyStop
<1>1. IInv => HoldsDuringEmergencyStop
  BY DEF IInv, Stopped, HoldsDuringEmergencyStop
<1> QED BY <1>1, Invariance, PTL

\* An arm at rest is commanded to where the mode or the slow fire asks it to be.
\* A cycle must have a clearance timeout (the parameter has to be positive):
\* without one it could end in the period that starts it.
THEOREM RestsInPlace ==
  ASSUME ClearanceTimeout > 0
  PROVE  Spec => []RestsWhereAsked
<1>1. Init => RestsWhereAsked
  BY DEF Init, RestsWhereAsked, Running
<1>2. IInv /\ RestsWhereAsked /\ [Next]_vars => RestsWhereAsked'
  BY RestsStep
<1> QED BY <1>1, <1>2, Invariance, PTL DEF Spec

\* A manual position aborts the cycle that is active; NoManualAbort says that
\* none comes during a cycle.  It may come at any other time, also while the arm
\* prepares for a cycle.
NoManualAbort == [][PositionMode => ~shot.active]_vars

\* The belts that a cycle started do not outlive it, unless a manual position
\* aborts it, which forgets that it started them: its end, its timeout, an
\* emergency stop or a reconnection in between, the preparation of the next
\* cycle and manual positions outside cycles included.
THEOREM BeltsStopWithCycle == Spec /\ NoManualAbort => []AutoBeltsStop
<1>1. Init => IInv /\ SpinsForCycle(shot, belt)
  <2>1. Init => belt # "SPIN"
    BY DEF Init
  <2> QED BY <2>1, InitInv DEF SpinsForCycle
<1>2. IInv /\ SpinsForCycle(shot, belt) /\ [Next]_vars
        /\ [PositionMode => ~shot.active]_vars
        => IInv' /\ SpinsForCycle(shot, belt)'
  <2> SUFFICES ASSUME IInv, SpinsForCycle(shot, belt), [Next]_vars,
                      [PositionMode => ~shot.active]_vars
               PROVE  IInv' /\ SpinsForCycle(shot', belt')
    OBVIOUS
  <2>1. CASE ~PositionMode
    BY <2>1, StepInv, BeltsStep
  <2>2. CASE PositionMode
    <3>1. belt' = belt
      BY <2>2 DEF PositionMode, PositionCommand
    <3>2. shot' = shot \/ ~shot.active
      BY <2>2 DEF vars
    <3> QED BY <3>1, <3>2, StepInv DEF SpinsForCycle
  <2> QED BY <2>1, <2>2
<1>3. SpinsForCycle(shot, belt) => AutoBeltsStop
  BY DEF SpinsForCycle, AutoBeltsStop
<1> QED BY <1>1, <1>2, <1>3, PTL DEF Spec, NoManualAbort

\* The request for clearance is withdrawn only when the last command of the arm
\* is clear of the belts, unless a manual position aborts the cycle: that one
\* withdraws it where the arm is.
THEOREM ReleaseFollowsReturn == Spec /\ NoManualAbort => ReleasedAfterReturn
<1>1. IInv /\ [Next]_vars /\ [PositionMode => ~shot.active]_vars
        => [clearance /\ ~clearance' => "FEED" \notin arm'.cmd]_vars
  <2> SUFFICES ASSUME IInv, [Next]_vars, [PositionMode => ~shot.active]_vars,
                      clearance, ~clearance'
               PROVE  "FEED" \notin arm'.cmd
    OBVIOUS
  <2>1. shot.active
    BY DEF IInv, ClearanceFollowsCycle
  <2>2. ~PositionMode
    BY <2>1 DEF vars
  <2> QED BY <2>2, ReleaseStep
<1> QED BY <1>1, Invariance, PTL DEF Spec, ReleasedAfterReturn, NoManualAbort

\* So both hold of every behaviour without manual positions, or with none but
\* FEED.
THEOREM WithoutManualPositions ==
  ASSUME CommandedModes \subseteq {"FEED"}
  PROVE  Spec => []AutoBeltsStop /\ ReleasedAfterReturn
<1>1. [Next]_vars => [PositionMode => ~shot.active]_vars
  BY DEF PositionMode, PositionCommand, Accepted
<1> QED BY <1>1, BeltsStopWithCycle, ReleaseFollowsReturn, PTL DEF Spec, NoManualAbort
=============================================================================
