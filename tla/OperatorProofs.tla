--------------------------- MODULE OperatorProofs ---------------------------
(***************************************************************************)
(* The operator's side, for every value of the constants: of the drive     *)
(* chain, that a heading is held in the frame it was measured in and that  *)
(* the wheels stand during an emergency stop; of the automatic modes, that *)
(* a stop leaves nothing on, that nobody drives behind the joystick's back *)
(* and how belts that turn come to belong to nobody.                       *)
(***************************************************************************)
EXTENDS AutoMode, DriveChain, SequenceTheorems, TLAPS

-----------------------------------------------------------------------------
(* The drive chain. *)

\* A frame that is no longer the IMU's is noticed: the yaw it belongs to is
\* too old.  Without any yaw there is no heading to hold.
FrameInv ==
  /\ hold.seen /\ imu.frame # hold.frame => hold.imuAge > ImuTimeout
  /\ ~hold.seen => hold.target = {}

DriveInv == DriveTypeOK /\ FrameInv /\ NoOldFrame /\ StopHolds

LEMMA DriveInitInv == DriveInit => DriveInv
BY DriveAssumption DEF DriveInit, DriveInv, DriveTypeOK, FrameInv, NoOldFrame,
   StopHolds, Holds, Velocities, Commands

\* Starting over leaves a well-formed node without a heading.
LEMMA ResetIsHold ==
  ASSUME NEW h \in Holds
  PROVE  /\ Reset(h) \in Holds /\ Reset(h).target = {}
         /\ Reset(h).seen = h.seen /\ Reset(h).frame = h.frame
         /\ Reset(h).imuAge = h.imuAge /\ Reset(h).enabled = h.enabled
<1> DEFINE none == {}
<1>1. Reset(h) = [h EXCEPT !.target = none, !.mode = "HOLDING", !.stable = 0]
  BY DEF Reset
<1>2. none \in SUBSET Nat
  OBVIOUS
<1> HIDE DEF none
<1>3. Reset(h) \in Holds
  <2> DEFINE r == [h EXCEPT !.target = none, !.mode = "HOLDING", !.stable = 0]
  <2>1. r \in Holds
    BY <1>2 DEF Holds
  <2> QED BY <1>1, <2>1
<1>4. /\ Reset(h).target = none /\ Reset(h).seen = h.seen
      /\ Reset(h).frame = h.frame /\ Reset(h).imuAge = h.imuAge
      /\ Reset(h).enabled = h.enabled
  BY <1>1 DEF Holds
<1> QED BY <1>3, <1>4 DEF none

LEMMA ReceiveCommandInv ==
  ASSUME DriveInv, ReceiveCommand  PROVE DriveInv'
<1>1. PICK c \in Commands : hold' = [hold EXCEPT !.cmd = c, !.cmdAge = 0]
  BY DEF ReceiveCommand
<1>2. hold' \in Holds
  BY <1>1 DEF DriveInv, DriveTypeOK, Holds
<1>3. /\ hold'.target = hold.target /\ hold'.frame = hold.frame
      /\ hold'.seen = hold.seen /\ hold'.imuAge = hold.imuAge
  BY <1>1 DEF DriveInv, DriveTypeOK, Holds
<1> QED BY <1>2, <1>3 DEF ReceiveCommand, DriveInv, DriveTypeOK, FrameInv,
           NoOldFrame, StopHolds

LEMMA ReceiveImuInv ==
  ASSUME DriveInv, ReceiveImu  PROVE DriveInv'
<1>1. PICK s \in BOOLEAN :
        hold' = [Rebased(hold) EXCEPT !.seen = TRUE, !.imuAge = 0,
                   !.frame = imu.frame, !.still = s]
  BY DEF ReceiveImu
<1>2. /\ Rebased(hold) \in Holds
      /\ Rebased(hold).target \subseteq {imu.frame}
  <2>1. CASE hold.seen /\ hold.imuAge > ImuTimeout
    BY <2>1, ResetIsHold DEF Rebased, DriveInv, DriveTypeOK
  <2>2. CASE ~(hold.seen /\ hold.imuAge > ImuTimeout)
    BY <2>2 DEF Rebased, DriveInv, DriveTypeOK, FrameInv, NoOldFrame
  <2> QED BY <2>1, <2>2
<1> DEFINE h == Rebased(hold)
<1> HIDE DEF h
<1>3. h \in Holds /\ h.target \subseteq {imu.frame}
      /\ hold' = [h EXCEPT !.seen = TRUE, !.imuAge = 0,
                   !.frame = imu.frame, !.still = s]
  BY <1>1, <1>2 DEF h
<1>4. UNCHANGED <<imu, heading, stop, wheels>> /\ imu.frame \in Nat
  BY DEF ReceiveImu, DriveInv, DriveTypeOK
<1>5. hold' \in Holds
  BY <1>3, <1>4 DEF Holds
<1>6. FrameInv' /\ NoOldFrame'
  BY <1>3, <1>4 DEF FrameInv, NoOldFrame, Holds
<1> QED BY <1>4, <1>5, <1>6 DEF DriveInv, DriveTypeOK, StopHolds

\* A period leaves the yaw alone, and holds no heading but the present one
\* or the one it held.
LEMMA ControlInv ==
  ASSUME DriveInv, Control  PROVE DriveInv'
<1> USE DEF Publish
<1>1. /\ hold' \in Holds /\ hold'.seen = hold.seen
      /\ hold'.frame = hold.frame /\ hold'.imuAge = hold.imuAge
      /\ hold'.target \subseteq {hold.frame}
      /\ hold'.target # {} => hold.target # {} \/ hold.seen
      /\ heading' \in SUBSET Velocities
  <2> USE DEF Holds, Velocities, DriveInv, DriveTypeOK, NoOldFrame
  <2>1. CASE ControlSilence
    BY <2>1, ResetIsHold DEF ControlSilence, Commands
  <2>2. CASE ControlPassed
    BY <2>2 DEF ControlPassed
  <2>3. CASE ControlBlind
    BY <2>3, ResetIsHold DEF ControlBlind
  <2>4. CASE ControlTurn
    BY <2>4 DEF ControlTurn, Holding, ImuFresh, Commands
  <2>5. CASE ControlSettle
    <3> DEFINE stable == IF ~hold.still THEN 0
                         ELSE IF Stable = 0 THEN 1 ELSE Stable
    <3>1. stable \in Nat
      BY DEF Stable
    <3>2. hold' = [hold EXCEPT !.target = {hold.frame}, !.mode = "SETTLING",
                     !.stable = stable]
      BY <2>5 DEF ControlSettle
    <3>3. {hold.frame} \in SUBSET Nat /\ hold.cmd \in Commands
      OBVIOUS
    <3>4. heading' = {hold.cmd} /\ hold.seen
      BY <2>5 DEF ControlSettle, Holding, ImuFresh
    <3> HIDE DEF stable, Publish
    <3>5. hold' \in Holds
      BY <3>1, <3>2, <3>3
    <3> QED BY <3>2, <3>3, <3>4, <3>5
  <2>6. CASE ControlHold
    <3>1. /\ {hold.frame} \in SUBSET Nat /\ hold.cmd \in Commands
          /\ hold.target \in SUBSET Nat /\ hold.seen
      BY <2>6 DEF ControlHold, Holding, ImuFresh
    <3>2. CASE hold.target = {}
      <4>1. hold' = [hold EXCEPT !.target = {hold.frame}]
            /\ heading' = {hold.cmd}
        BY <2>6, <3>2 DEF ControlHold
      <4>2. hold' \in Holds
        BY <3>1, <4>1
      <4> QED BY <3>1, <4>1, <4>2
    <3>3. CASE hold.target # {}
      <4> DEFINE target == IF hold.mode = "HOLDING" THEN hold.target
                           ELSE {hold.frame}
                 stable == IF hold.mode = "HOLDING" THEN hold.stable ELSE 0
      <4>1. /\ target \in SUBSET Nat /\ target \subseteq {hold.frame}
            /\ stable \in Nat
        BY <3>1
      <4>2. /\ hold' = [hold EXCEPT !.target = target, !.stable = stable,
                          !.mode = "HOLDING"]
            /\ heading' = {"HELD"}
        BY <2>6, <3>3 DEF ControlHold
      <4> HIDE DEF target, stable
      <4>3. hold' \in Holds
        BY <4>1, <4>2
      <4> QED BY <3>1, <4>1, <4>2, <4>3
    <3> QED BY <3>2, <3>3
  <2> QED BY <2>1, <2>2, <2>3, <2>4, <2>5, <2>6 DEF Control
<1>2. UNCHANGED <<imu, stop, wheels>>
  BY DEF Control
<1> QED BY <1>1, <1>2 DEF DriveInv, DriveTypeOK, FrameInv, NoOldFrame,
           StopHolds

LEMMA WheelsInv ==
  ASSUME DriveInv, ReceiveHeading \/ ReceiveStop  PROVE DriveInv'
<1>1. ASSUME NEW w \in [stop : BOOLEAN, last : Velocities, speeds : Velocities]
      PROVE  /\ Wheels(w) \in [stop : BOOLEAN, last : Velocities,
                                speeds : Velocities]
             /\ Wheels(w).stop => Wheels(w).speeds = "ZERO"
  <2> DEFINE speeds == IF w.stop THEN "ZERO" ELSE w.last
  <2>1. speeds \in Velocities /\ (w.stop => speeds = "ZERO")
    BY DEF Velocities, Commands
  <2>2. Wheels(w) = [w EXCEPT !.speeds = speeds]
    BY DEF Wheels
  <2> HIDE DEF speeds
  <2> QED BY <2>1, <2>2
<1>2. wheels \in [stop : BOOLEAN, last : Velocities, speeds : Velocities]
  BY DEF DriveInv, DriveTypeOK
<1>3. CASE ReceiveHeading
  <2>1. PICK v \in heading : wheels' = Wheels([wheels EXCEPT !.last = v])
    BY <1>3 DEF ReceiveHeading
  <2>2. [wheels EXCEPT !.last = v] \in
          [stop : BOOLEAN, last : Velocities, speeds : Velocities]
    BY <1>2, <2>1 DEF DriveInv, DriveTypeOK
  <2> QED BY <1>1, <1>3, <2>1, <2>2 DEF ReceiveHeading, DriveInv,
             DriveTypeOK, FrameInv, NoOldFrame, StopHolds
<1>4. CASE ReceiveStop
  <2>1. [wheels EXCEPT !.stop = stop] \in
          [stop : BOOLEAN, last : Velocities, speeds : Velocities]
    BY <1>2 DEF DriveInv, DriveTypeOK
  <2> QED BY <1>1, <1>4, <2>1 DEF ReceiveStop, DriveInv, DriveTypeOK,
             FrameInv, NoOldFrame, StopHolds
<1> QED BY <1>3, <1>4

LEMMA TickInv ==
  ASSUME DriveInv, Tick  PROVE DriveInv'
<1>1. \A n, limit \in Nat : UpTo(limit, n) \in Nat /\ UpTo(limit, n) >= n
  BY DEF UpTo
<1> DEFINE c == UpTo(CommandTimeout, hold.cmdAge)
           a == UpTo(ImuTimeout, hold.imuAge)
           s == IF hold.stable = 0 THEN 0 ELSE UpTo(SettleTime, hold.stable)
<1>2. c \in Nat /\ a \in Nat /\ s \in Nat /\ a >= hold.imuAge
  BY <1>1, DriveAssumption DEF DriveInv, DriveTypeOK, Holds
<1>3. hold' = [hold EXCEPT !.cmdAge = c, !.imuAge = a, !.stable = s]
  BY DEF Tick
<1> HIDE DEF c, a, s
<1>4. hold' \in Holds
  BY <1>2, <1>3 DEF DriveInv, DriveTypeOK, Holds
<1>5. /\ hold'.target = hold.target /\ hold'.frame = hold.frame
      /\ hold'.seen = hold.seen /\ hold'.imuAge = a
  BY <1>3 DEF DriveInv, DriveTypeOK, Holds
<1>6. UNCHANGED <<imu, heading, stop, wheels>>
  BY DEF Tick
<1>7. hold.imuAge > ImuTimeout => a > ImuTimeout
  BY <1>2, DriveAssumption DEF DriveInv, DriveTypeOK, Holds
<1> QED BY <1>4, <1>5, <1>6, <1>7 DEF DriveInv, DriveTypeOK, FrameInv,
           NoOldFrame, StopHolds

LEMMA DriveNextInv == DriveInv /\ [DriveNext]_driveVars => DriveInv'
<1> SUFFICES ASSUME DriveInv, [DriveNext]_driveVars  PROVE DriveInv'
  OBVIOUS
<1> USE DEF DriveInv, DriveTypeOK, FrameInv, NoOldFrame, StopHolds
<1>1. CASE SetEnabled
  <2> DEFINE h == Reset(hold)
  <2>1. /\ h \in Holds /\ h.target = {} /\ h.seen = hold.seen
        /\ h.frame = hold.frame /\ h.imuAge = hold.imuAge
    BY ResetIsHold
  <2>2. hold' = [h EXCEPT !.enabled = ~h.enabled]
    BY <1>1 DEF SetEnabled
  <2> HIDE DEF h
  <2>3. /\ hold' \in Holds /\ hold'.target = {} /\ hold'.seen = hold.seen
        /\ hold'.frame = hold.frame /\ hold'.imuAge = hold.imuAge
    BY <2>1, <2>2 DEF Holds
  <2>4. heading' \in SUBSET Velocities /\ UNCHANGED <<imu, stop, wheels>>
    BY <1>1 DEF SetEnabled, Holds, Velocities
  <2> QED BY <2>3, <2>4
<1>2. CASE ToggleStop
  BY <1>2 DEF ToggleStop
<1>3. CASE ImuFails
  BY <1>3 DEF ImuFails
<1>4. CASE ImuRestarts
  BY <1>4 DEF ImuRestarts
<1>5. CASE UNCHANGED driveVars
  BY <1>5 DEF driveVars
<1> QED BY <1>1, <1>2, <1>3, <1>4, <1>5, ReceiveCommandInv, ReceiveImuInv,
           ControlInv, WheelsInv, TickInv DEF DriveNext

\* The heading that is held was measured in the frame of the yaw it is
\* compared with, however often the IMU starts over and whatever is commanded.
\* (receive_imu, select_output_command)
THEOREM NoOldFrameAlways == DriveSpec => []NoOldFrame
BY DriveInitInv, DriveNextInv, PTL DEF DriveSpec, DriveInv

\* During an emergency stop that the mecanum controller knows of the wheels
\* stand, whatever else arrives.  (publish_wheel_commands)
THEOREM StopHoldsAlways == DriveSpec => []StopHolds
BY DriveInitInv, DriveNextInv, PTL DEF DriveSpec, DriveInv
-----------------------------------------------------------------------------
(* The automatic modes. *)

\* Only the game 2 launch starts the aiming node of game 2.
Game2Only == launch # "game2" => game2.state = "STANDBY"

\* The request that was sent last says what the joystick node believes.
LastStart ==
  launch = "game2" /\ sent.start # <<>> =>
    sent.start[Len(sent.start)] = joy.game2

\* LevelOfSelected from the moment the panel is locked.
LockedLevel ==
  pk.state \in {"ALIGNING", "PREPARING_SHOOT"} => pk.level = LevelOf[pk.selected]

AutoInv ==
  /\ TypeOK /\ StoppedIsStill
  /\ OneDriver /\ Game2Only /\ LastStart
  /\ AimsAtTarget /\ LockedLevel

\* A position of the arm ends a cycle that turns the belts itself.
Aborts ==
  /\ sent'.arm < sent.arm
  /\ cycle.auto /\ cycle.phase # "IDLE" /\ cycle'.phase = "IDLE"

OwnerStep == BeltsHaveOwner /\ ~BeltsHaveOwner' => Aborts

LEMMA AutoInitInv == Init => AutoInv
<1> SUFFICES ASSUME Init  PROVE AutoInv
  OBVIOUS
<1> USE DEF Init, JoyInit, PkInit, Game2Init
<1>1. /\ launch \in Launches /\ pad \in SUBSET STRING
      /\ last \in SUBSET SUBSET STRING
  OBVIOUS
<1>2. joy \in Joys /\ joy.level <= MaxLevel
  BY JoyAssumption DEF Joys, AimStates, ArmPositions
<1>3. <<>> \in Seq(BOOLEAN) /\ <<>> \in Seq({"NEXT", "PREV"})
  BY EmptySeq
<1>4. sent \in Requests
  BY <1>3 DEF Requests, NoRequests
<1>5. pk \in Pks
  BY PkAssumption DEF Pks, AimStates, Panels
<1>6. game2 \in Game2s /\ cycle \in Cycles
  BY DEF Game2s, Cycles, AimStates, CycleStates
<1>7. TypeOK
  BY <1>1, <1>2, <1>4, <1>5, <1>6 DEF TypeOK
<1>8. sent.start = <<>>
  BY DEF NoRequests
<1> QED BY <1>7, <1>8 DEF AutoInv, StoppedIsStill, OneDriver, Game2Only,
           LastStart, AimsAtTarget, LockedLevel

-----------------------------------------------------------------------------
\* What the last request of a queue is, when one is added or received.
LEMMA LastOfAppend ==
  ASSUME NEW q \in Seq(BOOLEAN), NEW b \in BOOLEAN
  PROVE  /\ Append(q, b) \in Seq(BOOLEAN) /\ Append(q, b) # <<>>
         /\ Append(q, b)[Len(Append(q, b))] = b
BY AppendProperties

LEMMA LastOfTail ==
  ASSUME NEW q \in Seq(BOOLEAN), q # <<>>
  PROVE  /\ Tail(q) \in Seq(BOOLEAN) /\ Head(q) \in BOOLEAN
         /\ Tail(q) # <<>> => Tail(q)[Len(Tail(q))] = q[Len(q)]
         /\ Tail(q) = <<>> => q[Len(q)] = Head(q)
<1> DEFINE m == Len(q)
           n == Len(Tail(q))
<1>1. /\ Head(q) \in BOOLEAN /\ Tail(q) \in Seq(BOOLEAN) /\ n = m - 1
      /\ \A i \in 1 .. n : Tail(q)[i] = q[i + 1]
      /\ Head(q) = q[1]
  BY HeadTailProperties
<1>2. m \in Nat \ {0} /\ n \in Nat /\ (Tail(q) # <<>> => n # 0)
      /\ (Tail(q) = <<>> => n = 0)
  BY <1>1, EmptySeq, LenProperties
<1> HIDE DEF m, n
<1>3. CASE Tail(q) = <<>>
  <2>1. m = 1
    BY <1>1, <1>2, <1>3
  <2> QED BY <1>1, <1>3, <2>1 DEF m
<1>4. CASE Tail(q) # <<>>
  <2>1. n \in 1 .. n /\ n + 1 = m
    BY <1>1, <1>2, <1>4
  <2>2. Tail(q)[n] = q[m]
    BY <1>1, <2>1
  <2> QED BY <1>1, <1>4, <2>2 DEF m, n
<1> QED BY <1>3, <1>4
-----------------------------------------------------------------------------
(* What a step of the joystick node does, for the other nodes. *)

JoyTypes ==
  /\ launch \in Launches /\ pad \in SUBSET STRING
  /\ last \in SUBSET SUBSET STRING
  /\ joy \in Joys /\ joy.level <= MaxLevel
  /\ drive \in {"ZERO", "MANUAL", "AIM"}
  /\ fire \in BOOLEAN /\ slow \in BOOLEAN /\ belt \in Nat
  /\ sent \in Requests

\* The belts stop, turn at the operator's level, or are left alone.
JoyBelt ==
  \/ belt' \in {0, joy'.level}
  \/ belt' = belt /\ joy'.level = joy.level

\* The aiming node of game 2 is told of every change of the mode.
JoyTells ==
  \/ launch # "game2"
  \/ sent'.start = sent.start /\ joy'.game2 = joy.game2
  \/ sent'.start # <<>> /\ sent'.start[Len(sent'.start)] = joy'.game2

JoyEffect ==
  launch' = launch /\ JoyTypes' /\ StoppedIsStill' /\ JoyBelt /\ JoyTells

LEMMA MaxLevelIsNat == MaxLevel \in Nat /\ 0 <= MaxLevel
<1>1. MaxLevel \in {MaxLevel, OpenDelay, RestoreDelay, MaxInFlight}
  OBVIOUS
<1>2. MaxLevel \in Nat
  BY <1>1, JoyAssumption
<1> QED BY <1>2

LEMMA LaterIsJoy ==
  ASSUME JoyTypes
  PROVE  /\ Later \in Joys /\ Later.level = joy.level /\ Later.stop = joy.stop
         /\ Later.timedOut = joy.timedOut /\ Later.game2 = joy.game2
         /\ Later.dribble = joy.dribble /\ Later.speed = joy.speed
<1> DEFINE t == IF (joy.open \/ joy.restore) /\ joy.clock < RestoreDelay
                THEN joy.clock + 1 ELSE joy.clock
<1>1. t \in Nat
  BY DEF JoyTypes, Joys
<1>2. Later = [joy EXCEPT !.clock = t]
  BY DEF Later
<1> HIDE DEF t
<1> QED BY <1>1, <1>2 DEF JoyTypes, Joys

LEMMA QuietIsStill ==
  ASSUME NEW j \in Joys
  PROVE  /\ Quiet(j) \in Joys /\ Quiet(j).speed = 0 /\ Quiet(j).level = 0
         /\ ~Quiet(j).dribble /\ ~Quiet(j).game2
<1> DEFINE off == FALSE
<1>1. off \in BOOLEAN /\ ~off
  OBVIOUS
<1>2. Quiet(j) = [j EXCEPT !.speed = 0, !.level = 0, !.dribble = off,
                           !.game2 = off]
  BY DEF Quiet
<1> HIDE DEF off
<1> DEFINE a == [j EXCEPT !.speed = 0]
           b == [a EXCEPT !.level = 0]
           c == [b EXCEPT !.dribble = off]
           d == [c EXCEPT !.game2 = off]
<1>3. a \in Joys /\ a.speed = 0
  BY DEF Joys
<1> HIDE DEF a
<1>4. b \in Joys /\ b.speed = 0 /\ b.level = 0
  BY <1>3 DEF Joys
<1> HIDE DEF b
<1>5. c \in Joys /\ c.speed = 0 /\ c.level = 0 /\ c.dribble = off
  BY <1>1, <1>4 DEF Joys
<1> HIDE DEF c
<1>6. d \in Joys /\ d.speed = 0 /\ d.level = 0 /\ d.dribble = off
      /\ d.game2 = off
  BY <1>1, <1>5 DEF Joys
<1>7. Quiet(j) = d
  BY <1>2 DEF a, b, c, d
<1> HIDE DEF d
<1> QED BY <1>1, <1>6, <1>7

\* Both ways to stop.
LEMMA StopEffect ==
  ASSUME JoyTypes, PublishStopCommands, UNCHANGED <<launch, pad, slow>>,
         last' \in SUBSET SUBSET STRING,
         joy' \in Joys, joy'.speed = 0, joy'.level = 0, ~joy'.dribble,
         ~joy'.game2
  PROVE  JoyEffect
<1>1. sent' \in Requests /\ JoyTells
  <2>1. CASE joy.game2 /\ launch = "game2"
    <3>1. sent.start \in Seq(BOOLEAN) /\ FALSE \in BOOLEAN
      BY DEF JoyTypes, Requests
    <3> DEFINE q == Append(sent.start, FALSE)
    <3>2. q \in Seq(BOOLEAN) /\ q # <<>> /\ q[Len(q)] = FALSE
      BY <3>1, LastOfAppend
    <3>3. sent' = [sent EXCEPT !.start = q]
      BY <2>1 DEF PublishStopCommands
    <3> HIDE DEF q
    <3>4. sent' \in Requests
      BY <3>2, <3>3 DEF JoyTypes, Requests
    <3>5. sent'.start = q
      BY <3>3 DEF JoyTypes, Requests
    <3>6. joy'.game2 = FALSE
      BY DEF Joys
    <3> QED BY <3>2, <3>4, <3>5, <3>6 DEF JoyTells
  <2>2. CASE ~(joy.game2 /\ launch = "game2")
    <3>1. sent' = sent
      BY <2>2 DEF PublishStopCommands
    <3>2. joy.game2 \in BOOLEAN /\ joy'.game2 \in BOOLEAN
      BY DEF JoyTypes, Joys
    <3> QED BY <2>2, <3>1, <3>2 DEF JoyTypes, JoyTells
  <2> QED BY <2>1, <2>2
<1>2. StoppedIsStill' /\ JoyBelt
  BY DEF PublishStopCommands, StoppedIsStill, JoyBelt
<1>3. /\ drive' \in {"ZERO", "MANUAL", "AIM"} /\ fire' \in BOOLEAN
      /\ belt' \in Nat
  BY DEF PublishStopCommands
<1> USE MaxLevelIsNat
<1>4. /\ launch' \in Launches /\ pad' \in SUBSET STRING /\ slow' \in BOOLEAN
  BY DEF JoyTypes
<1>5. JoyTypes'
  BY <1>1, <1>3, <1>4 DEF JoyTypes
<1> QED BY <1>1, <1>2, <1>5 DEF JoyEffect

\* The level stays in its range, and is published when it changes.
LEMMA NewLevelInRange ==
  ASSUME JoyTypes
  PROVE  /\ NewLevel \in Nat /\ NewLevel <= MaxLevel
         /\ ~BeltPublished => NewLevel = joy.level
<1>1. joy.level \in Nat /\ joy.level <= MaxLevel
  BY DEF JoyTypes, Joys
<1> DEFINE r2 == Held("R2")
           up == Pressed("UP")
           down == Pressed("DOWN")
<1>2. NewLevel = IF r2 THEN joy.level
                 ELSE IF up
                      THEN IF joy.level < MaxLevel THEN joy.level + 1
                           ELSE MaxLevel
                 ELSE IF down /\ joy.level > 0 THEN joy.level - 1
                 ELSE joy.level
  BY DEF NewLevel
<1>3. ~BeltPublished => r2 \/ (~up /\ ~down)
  BY DEF BeltPublished
<1> HIDE DEF r2, up, down
<1> DEFINE l == joy.level
<1> HIDE DEF l
<1>4. l \in Nat /\ l <= MaxLevel
  BY <1>1 DEF l
<1>5. NewLevel = IF r2 THEN l
                 ELSE IF up THEN IF l < MaxLevel THEN l + 1 ELSE MaxLevel
                 ELSE IF down /\ l > 0 THEN l - 1 ELSE l
  BY <1>2 DEF l
<1>6. NewLevel \in Nat /\ NewLevel <= MaxLevel
  BY <1>4, <1>5, MaxLevelIsNat
<1>7. (r2 \/ (~up /\ ~down)) => NewLevel = l
  BY <1>5
<1> QED BY <1>3, <1>6, <1>7 DEF l

\* What is asked of the aiming node is what the joystick node believes.
LEMMA NewStartTells ==
  ASSUME JoyTypes
  PROVE  /\ NewStart \in Seq(BOOLEAN)
         /\ \/ launch # "game2"
            \/ NewStart = sent.start /\ NewGame2 = joy.game2
            \/ NewStart # <<>> /\ NewStart[Len(NewStart)] = NewGame2
<1>1. sent.start \in Seq(BOOLEAN) /\ joy.game2 \in BOOLEAN
      /\ joy.pk \in BOOLEAN
  BY DEF JoyTypes, Requests, Joys
<1> DEFINE asks == ~joy.game2
           ends == FALSE
           asked == IF Pressed("OPTIONS") THEN Append(sent.start, asks)
                    ELSE sent.start
<1>2. asks \in BOOLEAN /\ ends \in BOOLEAN
  OBVIOUS
<1>3. /\ asked \in Seq(BOOLEAN)
      /\ Pressed("OPTIONS") => asked # <<>> /\ asked[Len(asked)] = asks
      /\ ~Pressed("OPTIONS") => asked = sent.start
  BY <1>1, <1>2, LastOfAppend
<1>4. NewStart = IF launch \notin {"game2", "pk"} THEN sent.start
                 ELSE IF Overridden THEN Append(asked, ends) ELSE asked
  BY DEF NewStart
<1> HIDE DEF asked
<1>5. CASE launch \notin {"game2", "pk"}
  BY <1>1, <1>4, <1>5
<1>6. CASE launch \in {"game2", "pk"} /\ Overridden
  <2>1. Append(asked, ends) \in Seq(BOOLEAN) /\ Append(asked, ends) # <<>>
        /\ Append(asked, ends)[Len(Append(asked, ends))] = ends
    BY <1>2, <1>3, LastOfAppend
  <2>2. NewGame2 = FALSE
    BY <1>6 DEF NewGame2
  <2> QED BY <1>4, <1>6, <2>1, <2>2
<1>7. CASE launch \in {"game2", "pk"} /\ ~Overridden
  <2>1. NewStart = asked
    BY <1>4, <1>7
  <2>2. NewGame2 = IF Pressed("OPTIONS") THEN asks ELSE joy.game2
    BY <1>1, <1>7 DEF NewGame2, Toggled
  <2> HIDE DEF asks
  <2> QED BY <1>3, <2>1, <2>2
<1> QED BY <1>5, <1>6, <1>7

\* The spring sequence moves the arm and nothing else that matters here.
LEMMA AfterFireIsJoy ==
  ASSUME NEW j \in Joys
  PROVE  /\ AfterFire(j) \in Joys
         /\ AfterFire(j).level = j.level /\ AfterFire(j).stop = j.stop
         /\ AfterFire(j).timedOut = j.timedOut
         /\ AfterFire(j).game2 = j.game2
<1> DEFINE started == FireBegins \/ (FireRequested /\ joy.started)
           clock == SequenceTime(j)
           open == Opening(j) /\ ~Opens(j)
           restore == Restoring(j) /\ ~Restores(j)
           arm == IF Restores(j) THEN "DRIBBLE"
                  ELSE IF Opens(j) THEN "OPEN" ELSE j.arm
<1>1. AfterFire(j) = [j EXCEPT !.started = started, !.clock = clock,
                        !.open = open, !.restore = restore, !.arm = arm]
  BY DEF AfterFire
<1>2. /\ clock \in Nat /\ started \in BOOLEAN /\ open \in BOOLEAN
      /\ restore \in BOOLEAN
  BY DEF Joys, SequenceTime
<1>3. arm \in ArmPositions
  BY DEF Joys, ArmPositions
<1> HIDE DEF clock, started, open, restore, arm
<1> QED BY <1>1, <1>2, <1>3 DEF Joys

LEMMA LoopRunEffect ==
  ASSUME JoyTypes, LoopRun
  PROVE  JoyEffect
<1>1. PICK v \in Speeds :
        /\ joy' = AfterFire(Controlled(v))
        /\ sent' = [sent EXCEPT
             !.start = NewStart, !.choose = NewChoose,
             !.confirm = IF launch = "pk" /\ Confirmed THEN @ + 1 ELSE @,
             !.shot = IF ShotRequested
                      THEN @ \cup ({"dribble", "game2"} \cap {"dribble", launch})
                      ELSE @,
             !.arm = @ + ArmCommands(Controlled(v))]
        /\ drive' = IF NewGame2 THEN drive
                    ELSE IF v = 1 THEN "MANUAL" ELSE "ZERO"
  BY DEF LoopRun
<1> DEFINE stopped == FALSE
           game2On == NewGame2
           pkOn == NewPk
           dribble == Later.dribble # Pressed("R1")
           reversed == Later.reversed # Pressed("PS")
           held == Later.heading # Pressed("SHARE")
           k == [Later EXCEPT
             !.stop = stopped, !.arm = NewArm, !.level = NewLevel,
             !.dribble = dribble, !.reversed = reversed, !.heading = held,
             !.game2 = game2On, !.pk = pkOn, !.speed = v]
<1>2. joy' = AfterFire(k)
  BY <1>1 DEF Controlled
<1>3. /\ stopped \in BOOLEAN /\ game2On \in BOOLEAN /\ pkOn \in BOOLEAN
      /\ dribble \in BOOLEAN /\ reversed \in BOOLEAN /\ held \in BOOLEAN
      /\ ~stopped
  BY DEF NewGame2, NewPk
<1>4. NewArm \in ArmPositions /\ v \in {0, 1}
  BY DEF NewArm, ArmPositions, Speeds, JoyTypes, Joys
<1>5. k \in Joys /\ k.level = NewLevel /\ k.stop = stopped
      /\ k.timedOut = joy.timedOut /\ k.game2 = game2On
  <2> HIDE DEF stopped, game2On, pkOn, dribble, reversed, held
  <2> DEFINE a == [Later EXCEPT !.stop = stopped, !.arm = NewArm]
             b == [a EXCEPT !.level = NewLevel, !.dribble = dribble]
             c == [b EXCEPT !.reversed = reversed, !.heading = held]
             d == [c EXCEPT !.game2 = game2On, !.pk = pkOn]
             e == [d EXCEPT !.speed = v]
  <2>1. a \in Joys /\ a.stop = stopped /\ a.timedOut = joy.timedOut
    BY <1>3, <1>4, LaterIsJoy DEF Joys
  <2> HIDE DEF a
  <2>2. b \in Joys /\ b.stop = stopped /\ b.timedOut = joy.timedOut
        /\ b.level = NewLevel
    BY <1>3, <2>1, NewLevelInRange DEF Joys
  <2> HIDE DEF b
  <2>3. c \in Joys /\ c.stop = stopped /\ c.timedOut = joy.timedOut
        /\ c.level = NewLevel
    BY <1>3, <2>2 DEF Joys
  <2> HIDE DEF c
  <2>4. d \in Joys /\ d.stop = stopped /\ d.timedOut = joy.timedOut
        /\ d.level = NewLevel /\ d.game2 = game2On
    BY <1>3, <2>3 DEF Joys
  <2> HIDE DEF d
  <2>5. e \in Joys /\ e.stop = stopped /\ e.timedOut = joy.timedOut
        /\ e.level = NewLevel /\ e.game2 = game2On
    BY <1>4, <2>4 DEF Joys
  <2>6. k = e
    BY DEF a, b, c, d
  <2> HIDE DEF e, k
  <2> QED BY <2>5, <2>6
<1>6. game2On = NewGame2 /\ (stopped = FALSE)
  OBVIOUS
<1> HIDE DEF k, stopped, game2On
<1>7. /\ joy' \in Joys /\ joy'.level = NewLevel /\ joy'.game2 = NewGame2
      /\ ~joy'.stop /\ joy'.timedOut = joy.timedOut
  BY <1>2, <1>3, <1>5, <1>6, AfterFireIsJoy
<1>8. StoppedIsStill'
  BY <1>7 DEF LoopRun, Active, StoppedIsStill, JoyTypes, Joys
<1>9. belt' = (IF BeltPublished THEN NewLevel ELSE belt)
  BY DEF LoopRun
<1>10. JoyBelt /\ belt' \in Nat
  BY <1>7, <1>9, NewLevelInRange DEF JoyBelt, JoyTypes
<1>11. sent' \in Requests /\ sent'.start = NewStart
  <2> DEFINE choose == NewChoose
             confirm == IF launch = "pk" /\ Confirmed THEN sent.confirm + 1
                        ELSE sent.confirm
             shot == IF ShotRequested
                     THEN sent.shot \cup
                            ({"dribble", "game2"} \cap {"dribble", launch})
                     ELSE sent.shot
             arm == sent.arm + ArmCommands(Controlled(v))
  <2>1. sent' = [sent EXCEPT !.start = NewStart, !.choose = choose,
                             !.confirm = confirm, !.shot = shot, !.arm = arm]
    BY <1>1
  <2>2. choose \in Seq({"NEXT", "PREV"})
    <3>1. sent.choose \in Seq({"NEXT", "PREV"})
      BY DEF JoyTypes, Requests
    <3>2. /\ Append(sent.choose, "NEXT") \in Seq({"NEXT", "PREV"})
          /\ Append(sent.choose, "PREV") \in Seq({"NEXT", "PREV"})
      BY <3>1, AppendProperties
    <3> QED BY <3>1, <3>2 DEF NewChoose
  <2>3. confirm \in Nat
    BY DEF JoyTypes, Requests
  <2>4. shot \in SUBSET {"dribble", "game2"}
    BY DEF JoyTypes, Requests
  <2>5. NewStart \in Seq(BOOLEAN) /\ arm \in Nat
    <3>1. sent.arm \in Nat /\ ArmCommands(Controlled(v)) \in Nat
      BY DEF JoyTypes, Requests, ArmCommands, Once
    <3> QED BY <3>1, NewStartTells
  <2> HIDE DEF choose, confirm, shot, arm
  <2>6. sent' \in Requests
    BY <2>1, <2>2, <2>3, <2>4, <2>5 DEF JoyTypes, Requests
  <2>7. sent'.start = NewStart
    BY <2>1 DEF JoyTypes, Requests
  <2> QED BY <2>6, <2>7
<1>12. JoyTells
  BY <1>7, <1>11, NewStartTells DEF JoyTells
<1>13. /\ fire' \in BOOLEAN /\ slow' \in BOOLEAN
       /\ drive' \in {"ZERO", "MANUAL", "AIM"}
  <2>1. fire' \in BOOLEAN
    BY DEF LoopRun, FireRequested
  <2>2. slow' \in BOOLEAN
    BY DEF LoopRun, Held
  <2> QED BY <1>1, <2>1, <2>2 DEF JoyTypes
<1>14. /\ launch' = launch /\ launch' \in Launches /\ pad' \in SUBSET STRING
       /\ last' \in SUBSET SUBSET STRING
  BY DEF LoopRun, JoyTypes
<1>15. joy'.level <= MaxLevel
  BY <1>7, NewLevelInRange
<1>16. JoyTypes'
  BY <1>7, <1>10, <1>11, <1>13, <1>14, <1>15 DEF JoyTypes
<1> QED BY <1>8, <1>10, <1>12, <1>14, <1>16 DEF JoyEffect

\* The steps that only change the node itself, and leave it as still.
LEMMA QuietStepEffect ==
  ASSUME JoyTypes, StoppedIsStill,
         UNCHANGED <<launch, drive, fire, slow, belt, sent>>,
         pad' \in SUBSET STRING, last' \in SUBSET SUBSET STRING,
         joy' \in Joys, joy'.level = joy.level, joy'.game2 = joy.game2,
         joy'.stop = joy.stop, joy'.timedOut => joy.timedOut,
         joy'.speed = joy.speed, joy'.dribble = joy.dribble
  PROVE  JoyEffect
BY DEF JoyEffect, JoyTypes, StoppedIsStill, JoyBelt, JoyTells

LEMMA JoySteps ==
  ASSUME JoyTypes, StoppedIsStill, JoyNext
  PROVE  JoyEffect
<1>1. CASE JoyMessage
  <2>1. pad' \in SUBSET STRING
    BY <1>1, JoyAssumption DEF JoyMessage, JoyTypes
  <2> DEFINE on == TRUE
             off == FALSE
  <2>2. joy' = [joy EXCEPT !.heard = on, !.timedOut = off]
    BY <1>1 DEF JoyMessage
  <2>3. on \in BOOLEAN /\ off \in BOOLEAN /\ ~off
    OBVIOUS
  <2> HIDE DEF on, off
  <2>4. joy' \in Joys
    BY <2>2, <2>3 DEF JoyTypes, Joys
  <2>5. /\ joy'.level = joy.level /\ joy'.game2 = joy.game2
        /\ joy'.stop = joy.stop /\ ~joy'.timedOut
        /\ joy'.speed = joy.speed /\ joy'.dribble = joy.dribble
    BY <2>2, <2>3 DEF JoyTypes, Joys
  <2>6. UNCHANGED <<launch, last, drive, fire, slow, belt, sent>>
    BY <1>1 DEF JoyMessage
  <2>7. last' \in SUBSET SUBSET STRING
    BY <2>6 DEF JoyTypes
  <2> QED BY <2>1, <2>4, <2>5, <2>6, <2>7, QuietStepEffect
<1>2. CASE JoyTimeout
  <2> DEFINE on == TRUE
             k == Quiet(joy)
  <2>1. joy' = [k EXCEPT !.timedOut = on]
    BY <1>2 DEF JoyTimeout
  <2>2. on \in BOOLEAN /\ k \in Joys /\ k.speed = 0 /\ k.level = 0
        /\ ~k.dribble /\ ~k.game2
    BY QuietIsStill DEF JoyTypes
  <2> HIDE DEF on, k
  <2>3. joy' \in Joys
    BY <2>1, <2>2 DEF Joys
  <2>4. joy'.speed = 0 /\ joy'.level = 0 /\ ~joy'.dribble /\ ~joy'.game2
    BY <2>1, <2>2 DEF Joys
  <2>5. PublishStopCommands /\ UNCHANGED <<launch, pad, slow>>
    BY <1>2 DEF JoyTimeout
  <2>6. last' \in SUBSET SUBSET STRING
    BY <1>2 DEF JoyTimeout
  <2> QED BY <2>3, <2>4, <2>5, <2>6, StopEffect
<1>3. CASE LoopStop
  <2> DEFINE on == TRUE
             k == Quiet(Later)
  <2>1. joy' = [k EXCEPT !.stop = on]
    BY <1>3 DEF LoopStop
  <2>2. on \in BOOLEAN /\ k \in Joys /\ k.speed = 0 /\ k.level = 0
        /\ ~k.dribble /\ ~k.game2
    BY LaterIsJoy, QuietIsStill
  <2> HIDE DEF on, k
  <2>3. joy' \in Joys
    BY <2>1, <2>2 DEF Joys
  <2>4. joy'.speed = 0 /\ joy'.level = 0 /\ ~joy'.dribble /\ ~joy'.game2
    BY <2>1, <2>2 DEF Joys
  <2>5. PublishStopCommands /\ UNCHANGED <<launch, pad, slow>>
    BY <1>3 DEF LoopStop
  <2>6. last' \in SUBSET SUBSET STRING
    BY <1>3 DEF LoopStop, JoyTypes
  <2> QED BY <2>3, <2>4, <2>5, <2>6, StopEffect
<1>4. CASE LoopIdle \/ LoopStopped
  <2>1. joy' = Later /\ UNCHANGED <<launch, pad, drive, fire, slow, belt, sent>>
    BY <1>4 DEF LoopIdle, LoopStopped
  <2>2. last' \in SUBSET SUBSET STRING /\ pad' \in SUBSET STRING
    BY <1>4 DEF LoopIdle, LoopStopped, JoyTypes
  <2> QED BY <2>1, <2>2, LaterIsJoy, QuietStepEffect
<1>5. CASE SetParameters
  <2>1. UNCHANGED <<launch, pad, joy, drive, fire, slow, belt, sent>>
    BY <1>5 DEF SetParameters
  <2>2. last' \in SUBSET SUBSET STRING /\ pad' \in SUBSET STRING
    BY <1>5 DEF SetParameters, JoyTypes
  <2> QED BY <2>1, <2>2, QuietStepEffect DEF JoyTypes
<1>6. CASE SpringReady
  <2>1. PICK r \in BOOLEAN : joy' = [joy EXCEPT !.springReady = r]
    BY <1>6 DEF SpringReady
  <2>2. /\ joy' \in Joys /\ joy'.level = joy.level /\ joy'.game2 = joy.game2
        /\ joy'.stop = joy.stop /\ joy'.timedOut = joy.timedOut
        /\ joy'.speed = joy.speed /\ joy'.dribble = joy.dribble
    BY <2>1 DEF JoyTypes, Joys
  <2>3. UNCHANGED <<launch, pad, last, drive, fire, slow, belt, sent>>
    BY <1>6 DEF SpringReady
  <2>4. last' \in SUBSET SUBSET STRING /\ pad' \in SUBSET STRING
    BY <2>3 DEF JoyTypes
  <2> QED BY <2>2, <2>3, <2>4, QuietStepEffect
<1> QED BY <1>1, <1>2, <1>3, <1>4, <1>5, <1>6, LoopRunEffect DEF JoyNext
-----------------------------------------------------------------------------
(* What a step of the aiming node of the penalty game does. *)

\* Receiving a request.
LEMMA ReceiveIsRequests ==
  ASSUME sent \in Requests
  PROVE  /\ sent.start # <<>> /\ Receive("start") =>
              sent' \in Requests /\ sent'.start = Tail(sent.start)
         /\ sent.choose # <<>> /\ Receive("choose") =>
              sent' \in Requests /\ sent'.start = sent.start
<1>1. sent.start \in Seq(BOOLEAN) /\ sent.choose \in Seq({"NEXT", "PREV"})
  BY DEF Requests
<1>2. ASSUME sent.start # <<>>, Receive("start")
      PROVE  sent' \in Requests /\ sent'.start = Tail(sent.start)
  <2> DEFINE q == Tail(sent.start)
  <2>1. q \in Seq(BOOLEAN)
    BY <1>1, <1>2, HeadTailProperties
  <2>2. sent' = [sent EXCEPT !.start = q]
    BY <1>2 DEF Receive
  <2> HIDE DEF q
  <2>3. sent' \in Requests /\ sent'.start = q
    BY <2>1, <2>2 DEF Requests
  <2> QED BY <2>3 DEF q
<1>3. ASSUME sent.choose # <<>>, Receive("choose")
      PROVE  sent' \in Requests /\ sent'.start = sent.start
  <2> DEFINE q == Tail(sent.choose)
  <2>1. q \in Seq({"NEXT", "PREV"})
    BY <1>1, <1>3, HeadTailProperties
  <2>2. sent' = [sent EXCEPT !.choose = q]
    BY <1>3 DEF Receive
  <2> HIDE DEF q
  <2> QED BY <2>1, <2>2 DEF Requests
<1> QED BY <1>2, <1>3

\* A lock leads to ALIGNING at the panel's level, or changes nothing.
LEMMA LockIsPk ==
  ASSUME NEW k \in Pks, NEW seen \in SUBSET Panels
  PROVE  LET l == LockAndAlign(k, seen) IN
           /\ l \in Pks /\ l.selected = k.selected
           /\ k.selected \in seen =>
                l.state = "ALIGNING" /\ l.level = LevelOf[l.selected]
           /\ k.selected \notin seen => l.state = k.state /\ l.level = k.level
<1> DEFINE on == TRUE
           off == FALSE
           level == LevelOf[k.selected]
<1>1. on \in BOOLEAN /\ off \in BOOLEAN /\ on /\ ~off /\ level \in Nat
  BY PkAssumption DEF Pks
<1>2. CASE k.selected \in seen
  <2>1. Lock(k, seen) = [k EXCEPT !.locked = on, !.level = level]
    BY <1>2 DEF Lock
  <2> HIDE DEF on, level
  <2>2. Lock(k, seen) \in Pks /\ Lock(k, seen).locked = on
        /\ Lock(k, seen).selected = k.selected /\ Lock(k, seen).level = level
    BY <1>1, <2>1 DEF Pks
  <2>3. LockAndAlign(k, seen) = [Lock(k, seen) EXCEPT !.state = "ALIGNING"]
    BY <1>1, <2>2 DEF LockAndAlign
  <2>4. LockAndAlign(k, seen) \in Pks
        /\ LockAndAlign(k, seen).state = "ALIGNING"
        /\ LockAndAlign(k, seen).selected = k.selected
        /\ LockAndAlign(k, seen).level = level
    BY <2>2, <2>3 DEF Pks, AimStates
  <2> QED BY <1>2, <2>4 DEF level
<1>3. CASE k.selected \notin seen
  <2>1. Lock(k, seen) = [k EXCEPT !.locked = off]
    BY <1>3 DEF Lock
  <2> HIDE DEF off
  <2>2. Lock(k, seen) \in Pks /\ Lock(k, seen).locked = off
        /\ Lock(k, seen).selected = k.selected
        /\ Lock(k, seen).level = k.level /\ Lock(k, seen).state = k.state
    BY <1>1, <2>1 DEF Pks
  <2>3. LockAndAlign(k, seen) = Lock(k, seen)
    BY <1>1, <2>2 DEF LockAndAlign
  <2> QED BY <1>3, <2>2, <2>3
<1> QED BY <1>2, <1>3

\* Belts that turn for this node stop with PREPARING_SHOOT, or go on at the
\* level they have.
PkBelt ==
  \/ belt' = 0
  \/ pk'.state = "PREPARING_SHOOT" /\ belt' = pk'.level
  \/ belt' = belt /\ pk.state # "PREPARING_SHOOT"
  \/ belt' = belt /\ pk'.state = "PREPARING_SHOOT" /\ pk'.level = pk.level

PkEffect ==
  /\ pk' \in Pks /\ LockedLevel' /\ PkBelt /\ belt' \in Nat
  /\ sent' \in Requests /\ (sent'.start = sent.start \/ launch = "pk")
  /\ drive' \in {"ZERO", "MANUAL", "AIM"}
  /\ UNCHANGED <<launch, pad, last, joy, fire, slow>>

\* The node that a handler leaves, and the belts.
LEMMA PkBecomesEffect ==
  ASSUME pk \in Pks, belt \in Nat, NEW k \in Pks, PkBecomes(k),
         k.state = "PREPARING_SHOOT" /\ pk.state = "PREPARING_SHOOT" =>
           k.level = pk.level
  PROVE  pk' \in Pks /\ PkBelt /\ belt' \in Nat
BY DEF PkBecomes, BeltsStopIn, PkBelt

LEMMA PkSteps ==
  ASSUME JoyTypes, pk \in Pks, LockedLevel, PkNext
  PROVE  PkEffect
<1> USE DEF PkEffect
<1>0. /\ belt \in Nat /\ sent \in Requests
      /\ drive \in {"ZERO", "MANUAL", "AIM"}
  BY DEF JoyTypes
<1>1. CASE PkStart
  <2>1. PICK seen \in SUBSET Panels :
          pk' = IF pk.state # "STANDBY" THEN pk
                ELSE LockAndAlign(
                  [pk EXCEPT !.confirmed = FALSE, !.state = "SEARCHING"], seen)
    BY <1>1 DEF PkStart
  <2> DEFINE off == FALSE
             k == [pk EXCEPT !.confirmed = off, !.state = "SEARCHING"]
  <2>2. pk.state = "STANDBY" => pk' = LockAndAlign(k, seen)
    BY <2>1
  <2>3. off \in BOOLEAN
    OBVIOUS
  <2> HIDE DEF off
  <2>4. k \in Pks /\ k.state = "SEARCHING" /\ k.selected = pk.selected
    BY <2>3 DEF Pks, AimStates
  <2> HIDE DEF k
  <2>5. pk' \in Pks /\ LockedLevel'
        /\ (pk.state = "PREPARING_SHOOT" => pk' = pk)
    BY <2>1, <2>2, <2>4, LockIsPk DEF LockedLevel
  <2>6. PkBelt
    BY <1>1, <2>5 DEF PkStart, PkBelt
  <2> QED BY <1>0, <1>1, <2>5, <2>6, ReceiveIsRequests DEF PkStart
<1>2. CASE PkEnd
  <2> DEFINE off == FALSE
             s == [pk EXCEPT !.confirmed = off, !.locked = off,
                             !.state = "STANDBY"]
             k == IF pk.state = "STANDBY" THEN pk ELSE s
  <2>1. PkBecomes(k)
    BY <1>2 DEF PkEnd
  <2>2. off \in BOOLEAN
    OBVIOUS
  <2> HIDE DEF off
  <2>3. s \in Pks /\ s.state = "STANDBY"
    BY <2>2 DEF Pks, AimStates
  <2> HIDE DEF s
  <2>4. k \in Pks /\ k.state = "STANDBY"
    BY <2>3
  <2> HIDE DEF k
  <2>5. LockedLevel'
    BY <2>1, <2>4 DEF LockedLevel, PkBecomes
  <2>6. pk' \in Pks /\ PkBelt /\ belt' \in Nat
    BY <1>0, <2>1, <2>4, PkBecomesEffect
  <2> QED BY <1>0, <1>2, <2>5, <2>6, ReceiveIsRequests DEF PkEnd
<1>3. CASE PkConfirm
  <2> DEFINE on == TRUE
             k == [pk EXCEPT !.confirmed = on]
             p == [k EXCEPT !.state = "PREPARING_SHOOT"]
             confirm == sent.confirm - 1
  <2>1. \/ /\ pk.state = "SEARCHING"
           /\ \E seen \in SUBSET Panels : pk' = LockAndAlign(k, seen)
        \/ pk.state = "ALIGNING" /\ pk' \in {k, p}
        \/ pk.state \notin {"SEARCHING", "ALIGNING"} /\ pk' = k
    BY <1>3 DEF PkConfirm
  <2>2. on \in BOOLEAN
    OBVIOUS
  <2> HIDE DEF on
  <2>3. k \in Pks /\ k.state = pk.state /\ k.selected = pk.selected
        /\ k.level = pk.level
    BY <2>2 DEF Pks
  <2> HIDE DEF k
  <2>4. p \in Pks /\ p.state = "PREPARING_SHOOT" /\ p.selected = pk.selected
        /\ p.level = pk.level
    BY <2>3 DEF Pks, AimStates
  <2> HIDE DEF p
  <2>5. pk' \in Pks /\ LockedLevel'
        /\ (pk.state = "PREPARING_SHOOT" =>
              pk'.state = "PREPARING_SHOOT" /\ pk'.level = pk.level)
    <3>1. CASE pk.state = "SEARCHING"
      <4>1. PICK seen \in SUBSET Panels : pk' = LockAndAlign(k, seen)
        BY <2>1, <3>1
      <4> QED BY <2>3, <3>1, <4>1, LockIsPk DEF LockedLevel
    <3>2. CASE pk.state = "ALIGNING"
      BY <2>1, <2>3, <2>4, <3>2 DEF LockedLevel
    <3>3. CASE pk.state \notin {"SEARCHING", "ALIGNING"}
      BY <2>1, <2>3, <3>3 DEF LockedLevel
    <3> QED BY <3>1, <3>2, <3>3
  <2>6. PkBelt /\ belt' \in Nat
    BY <1>0, <1>3, <2>5 DEF PkConfirm, PkBelt
  <2>7. sent' = [sent EXCEPT !.confirm = confirm] /\ confirm \in Nat
    BY <1>0, <1>3 DEF PkConfirm, Requests
  <2> HIDE DEF confirm
  <2>8. sent' \in Requests /\ sent'.start = sent.start
    BY <1>0, <2>7 DEF Requests
  <2> QED BY <1>0, <1>3, <2>5, <2>6, <2>8 DEF PkConfirm
<1>4. CASE PkChoose
  <2>1. sent' \in Requests /\ sent'.start = sent.start
    BY <1>0, <1>4, ReceiveIsRequests DEF PkChoose
  <2>2. CASE pk.state = "STANDBY"
    BY <1>0, <1>4, <2>1, <2>2 DEF PkChoose, PkBelt, LockedLevel
  <2>3. CASE pk.state # "STANDBY"
    <3> DEFINE off == FALSE
    <3>1. PICK seen \in SUBSET Panels :
            \E p \in Selection(Head(sent.choose), seen) :
              PkBecomes(LockAndAlign(
                [pk EXCEPT !.confirmed = off, !.selected = p], seen))
      BY <1>4, <2>3 DEF PkChoose
    <3>2. PICK p \in Selection(Head(sent.choose), seen) :
            PkBecomes(LockAndAlign(
              [pk EXCEPT !.confirmed = off, !.selected = p], seen))
      BY <3>1
    <3>3. p \in Panels /\ (p \in seen \/ p = pk.selected)
      BY <3>2 DEF Selection, Pks
    <3>4. off \in BOOLEAN
      OBVIOUS
    <3> HIDE DEF off
    <3> DEFINE k == [pk EXCEPT !.confirmed = off, !.selected = p]
               l == LockAndAlign(k, seen)
    <3>5. k \in Pks /\ k.state = pk.state /\ k.selected = p
          /\ k.level = pk.level
      BY <3>3, <3>4 DEF Pks
    <3>6. PkBecomes(l)
      BY <3>2
    <3> HIDE DEF k
    <3>7. /\ l \in Pks
          /\ l.state \in {"ALIGNING", "PREPARING_SHOOT"} =>
               l.level = LevelOf[l.selected]
          /\ l.state = "PREPARING_SHOOT" => l.level = pk.level
      <4>1. CASE p \in seen
        BY <3>5, <4>1, LockIsPk
      <4>2. CASE p \notin seen
        BY <3>3, <3>5, <4>2, LockIsPk DEF LockedLevel
      <4> QED BY <4>1, <4>2
    <3> HIDE DEF l
    <3>8. pk' \in Pks /\ PkBelt /\ belt' \in Nat
      BY <1>0, <3>6, <3>7, PkBecomesEffect
    <3>9. LockedLevel'
      BY <3>6, <3>7 DEF LockedLevel, PkBecomes
    <3> QED BY <1>0, <1>4, <2>1, <3>8, <3>9 DEF PkChoose
  <2> QED BY <2>2, <2>3
<1>5. CASE PkControl
  <2>1. /\ UNCHANGED <<launch, pad, last, joy, fire, slow, sent>>
    BY <1>5 DEF PkControl
  <2>2. pk.level \in Nat
    BY DEF Pks
  <2>3. CASE PkSearch
    <3>1. PICK seen \in SUBSET Panels : pk' = LockAndAlign(pk, seen)
      BY <2>3 DEF PkSearch
    <3>2. pk' \in Pks /\ LockedLevel'
      BY <2>3, <3>1, LockIsPk DEF PkSearch, LockedLevel
    <3> QED BY <1>0, <2>1, <2>3, <3>2 DEF PkSearch, PkBelt
  <2>4. CASE PkAlign \/ PkPrepare
    <3> DEFINE off == FALSE
               a == [pk EXCEPT !.state = "SEARCHING"]
               b == [pk EXCEPT !.state = "PREPARING_SHOOT"]
               c == [pk EXCEPT !.confirmed = off, !.state = "SEARCHING"]
               d == [pk EXCEPT !.confirmed = off, !.state = "ALIGNING"]
    <3>1. pk' \in {pk, a, b, c, d}
      BY <2>4 DEF PkAlign, PkPrepare
    <3>2. /\ belt' \in {0, pk.level}
          /\ belt' = 0 \/ (pk' \in {pk, b} /\ pk'.state = "PREPARING_SHOOT")
          /\ drive' \in {"ZERO", "AIM", drive}
      BY <2>4 DEF PkAlign, PkPrepare, Pks, AimStates
    <3>3. off \in BOOLEAN
      OBVIOUS
    <3> HIDE DEF off
    <3>4. pk.state \in {"ALIGNING", "PREPARING_SHOOT"}
      BY <2>4 DEF PkAlign, PkPrepare
    <3>5. \A k \in {a, b, c, d} :
            k \in Pks /\ k.level = pk.level /\ k.selected = pk.selected
      BY <3>3 DEF Pks, AimStates
    <3> HIDE DEF a, b, c, d
    <3>6. pk' \in Pks /\ pk'.level = pk.level /\ pk'.selected = pk.selected
      BY <3>1, <3>5
    <3>7. LockedLevel' /\ PkBelt /\ belt' \in Nat
      BY <2>2, <3>2, <3>4, <3>6 DEF LockedLevel, PkBelt
    <3> QED BY <1>0, <2>1, <3>2, <3>6, <3>7
  <2> QED BY <1>5, <2>3, <2>4 DEF PkControl
<1> QED BY <1>1, <1>2, <1>3, <1>4, <1>5 DEF PkNext
-----------------------------------------------------------------------------
(* What a step of the aiming node of game 2 does. *)

Aims(g) == (g.state \in {"ALIGNING", "PREPARING_SHOOT"}) = (g.level # 0)

\* A transition keeps the target with the states that aim at it.
LEMMA TransitionAims ==
  ASSUME NEW g \in Game2s, Aims(g), NEW new \in AimStates,
         new \in {"STANDBY", "SEARCHING"}
           \/ g.state \in {"ALIGNING", "PREPARING_SHOOT"}
  PROVE  LET t == TransitionTo(g, new) IN
           /\ t \in Game2s /\ t.state = new /\ Aims(t)
           /\ new = g.state => t = g
<1> DEFINE off == FALSE
<1>1. off \in BOOLEAN
  OBVIOUS
<1>2. CASE new = g.state
  BY <1>2 DEF TransitionTo
<1>3. CASE new # g.state /\ new \in {"STANDBY", "SEARCHING"}
  <2>1. TransitionTo(g, new) =
          [g EXCEPT !.state = new, !.level = 0, !.shot = off]
    BY <1>3 DEF TransitionTo
  <2> HIDE DEF off
  <2>2. TransitionTo(g, new) \in Game2s
    <3> DEFINE a == [g EXCEPT !.state = new, !.level = 0]
    <3>1. a \in Game2s
      BY DEF Game2s
    <3>2. TransitionTo(g, new) = [a EXCEPT !.shot = off]
      BY <2>1
    <3> HIDE DEF a
    <3> QED BY <1>1, <3>1, <3>2 DEF Game2s
  <2>3. TransitionTo(g, new).state = new /\ TransitionTo(g, new).level = 0
    BY <2>1 DEF Game2s
  <2> QED BY <1>3, <2>2, <2>3 DEF Aims
<1>4. CASE new # g.state /\ new \notin {"STANDBY", "SEARCHING"}
  <2>1. TransitionTo(g, new) = [g EXCEPT !.state = new]
    BY <1>4 DEF TransitionTo
  <2>2. TransitionTo(g, new) \in Game2s
    BY <2>1 DEF Game2s
  <2>3. TransitionTo(g, new).state = new
        /\ TransitionTo(g, new).level = g.level
    BY <2>1 DEF Game2s
  <2> QED BY <1>4, <2>2, <2>3 DEF Aims, AimStates
<1> QED BY <1>2, <1>3, <1>4

Game2Belt ==
  \/ belt' = 0
  \/ game2'.state = "PREPARING_SHOOT" /\ belt' = game2'.level
  \/ belt' = belt /\ game2.state # "PREPARING_SHOOT"
  \/ /\ belt' = belt /\ game2'.state = "PREPARING_SHOOT"
     /\ game2'.level = game2.level

\* The node leaves STANDBY only by the request at the head of the queue.
Game2Hears ==
  \/ /\ sent'.start = sent.start
     /\ game2.state = "STANDBY" => game2'.state = "STANDBY"
  \/ /\ launch = "game2" /\ sent.start # <<>> /\ sent'.start = Tail(sent.start)
     /\ ~Head(sent.start) => game2'.state = "STANDBY"

Game2Effect ==
  /\ game2' \in Game2s /\ Aims(game2') /\ Game2Belt /\ belt' \in Nat
  /\ sent' \in Requests /\ Game2Hears
  /\ drive' \in {"ZERO", "MANUAL", "AIM"}
  /\ UNCHANGED <<launch, pad, last, joy, fire, slow>>

LEMMA Game2BecomesBelt ==
  ASSUME belt \in Nat, NEW g \in Game2s, Game2Becomes(g),
         g.state = game2.state => g.level = game2.level
  PROVE  game2' = g /\ Game2Belt /\ belt' \in Nat
BY DEF Game2Becomes, Game2Belt

LEMMA Game2Steps ==
  ASSUME JoyTypes, game2 \in Game2s, Aims(game2),
         \/ Game2Next
         \/ /\ \E c \in CycleStates : Game2HearsCycle(c)
            /\ UNCHANGED <<launch, pad, last, joy, drive, fire, slow, sent>>
  PROVE  Game2Effect
<1> USE DEF Game2Effect
<1>0. /\ belt \in Nat /\ sent \in Requests
      /\ drive \in {"ZERO", "MANUAL", "AIM"}
      /\ "STANDBY" \in AimStates /\ "SEARCHING" \in AimStates
      /\ "ALIGNING" \in AimStates /\ "PREPARING_SHOOT" \in AimStates
  BY DEF JoyTypes, AimStates
<1>1. CASE Game2Start
  <2> DEFINE new == IF Head(sent.start) THEN "SEARCHING" ELSE "STANDBY"
             g == TransitionTo(game2, new)
  <2>1. Game2Becomes(g)
    BY <1>1 DEF Game2Start
  <2>2. new \in AimStates /\ new \in {"STANDBY", "SEARCHING"}
        /\ (~Head(sent.start) => new = "STANDBY")
    BY <1>0
  <2> HIDE DEF new
  <2>3. g \in Game2s /\ g.state = new /\ Aims(g)
        /\ (g.state = game2.state => g = game2)
    BY <2>2, TransitionAims
  <2> HIDE DEF g
  <2>4. game2' = g /\ Game2Belt /\ belt' \in Nat
    BY <1>0, <2>1, <2>3, Game2BecomesBelt
  <2>5. sent' \in Requests /\ sent'.start = Tail(sent.start)
    BY <1>0, <1>1, ReceiveIsRequests DEF Game2Start, Receive
  <2>6. Game2Hears
    BY <1>1, <2>2, <2>3, <2>4, <2>5 DEF Game2Start, Game2Hears
  <2> QED BY <1>0, <1>1, <2>3, <2>4, <2>5, <2>6 DEF Game2Start
<1>2. CASE Game2Stop
  <2> DEFINE stopped == joy.stop
             g == [game2 EXCEPT !.stop = stopped]
             t == IF stopped THEN TransitionTo(g, "STANDBY") ELSE g
  <2>1. Game2Becomes(t)
    BY <1>2 DEF Game2Stop
  <2>2. stopped \in BOOLEAN
    BY DEF JoyTypes, Joys
  <2> HIDE DEF stopped
  <2>3. g \in Game2s /\ g.state = game2.state /\ g.level = game2.level
    BY <2>2 DEF Game2s
  <2>4. Aims(g)
    BY <2>3 DEF Aims
  <2> HIDE DEF g
  <2>5. /\ t \in Game2s /\ Aims(t) /\ t.state \in {"STANDBY", game2.state}
        /\ t.state = game2.state => t.level = game2.level
    BY <1>0, <2>3, <2>4, TransitionAims
  <2> HIDE DEF t
  <2>6. game2' = t /\ Game2Belt /\ belt' \in Nat
    BY <1>0, <2>1, <2>5, Game2BecomesBelt
  <2>7. UNCHANGED <<launch, pad, last, joy, drive, fire, slow, sent>>
    BY <1>2 DEF Game2Stop
  <2> QED BY <1>0, <2>5, <2>6, <2>7 DEF Game2Hears
<1>3. CASE Game2ShotRequest
  <2> DEFINE on == TRUE
             g == [game2 EXCEPT !.shot = on]
             shot == sent.shot \ {"game2"}
  <2>1. on \in BOOLEAN
    OBVIOUS
  <2>2. game2' = IF game2.state = "STANDBY" THEN game2 ELSE g
    BY <1>3 DEF Game2ShotRequest
  <2> HIDE DEF on
  <2>3. g \in Game2s /\ g.state = game2.state /\ g.level = game2.level
    BY <2>1 DEF Game2s
  <2> HIDE DEF g
  <2>4. game2' \in Game2s /\ game2'.state = game2.state
        /\ game2'.level = game2.level
    BY <2>2, <2>3
  <2>5. sent' = [sent EXCEPT !.shot = shot]
        /\ shot \in SUBSET {"dribble", "game2"}
    BY <1>0, <1>3 DEF Game2ShotRequest, Requests
  <2> HIDE DEF shot
  <2>6. sent' \in Requests /\ sent'.start = sent.start
    BY <1>0, <2>5 DEF Requests
  <2>7. UNCHANGED <<launch, pad, last, joy, drive, fire, slow, belt>>
    BY <1>3 DEF Game2ShotRequest
  <2> QED BY <1>0, <2>4, <2>6, <2>7 DEF Game2Hears, Game2Belt, Aims
<1>4. CASE Game2Control
  <2>1. PICK g \in Game2Begins : \E new \in Game2Successors(g) :
          /\ game2' = new
          /\ drive' = Game2Drives(g, new)
          /\ belt' = CASE new.state = "PREPARING_SHOOT" -> new.level
                       [] game2.state = "PREPARING_SHOOT" -> 0
                       [] OTHER -> belt
    BY <1>4 DEF Game2Control
  <2>2. PICK new \in Game2Successors(g) :
          /\ game2' = new
          /\ drive' = Game2Drives(g, new)
          /\ belt' = CASE new.state = "PREPARING_SHOOT" -> new.level
                       [] game2.state = "PREPARING_SHOOT" -> 0
                       [] OTHER -> belt
    BY <2>1
  <2>3. g \in Game2s /\ Aims(g)
    <3>1. /\ TransitionTo(game2, "STANDBY") \in Game2s
          /\ Aims(TransitionTo(game2, "STANDBY"))
          /\ TransitionTo(game2, "SEARCHING") \in Game2s
          /\ Aims(TransitionTo(game2, "SEARCHING"))
      BY <1>0, TransitionAims
    <3> QED BY <2>1, <3>1 DEF Game2Begins
  <2>4. new \in Game2s /\ Aims(new)
    <3>1. CASE g.state = "STANDBY"
      BY <2>2, <2>3, <3>1 DEF Game2Successors
    <3>2. CASE g.state = "SEARCHING"
      <4>1. CASE new = g
        BY <2>3, <4>1
      <4>2. CASE new # g
        <5>1. PICK l \in RowLevels :
                new = [g EXCEPT !.state = "ALIGNING", !.level = l]
          BY <2>2, <3>2, <4>2 DEF Game2Successors
        <5>2. l \in Nat /\ l # 0
          BY Game2Assumption, MaxLevelIsNat
        <5>3. new \in Game2s /\ new.state = "ALIGNING" /\ new.level = l
          BY <1>0, <2>3, <5>1, <5>2 DEF Game2s
        <5> QED BY <5>2, <5>3 DEF Aims
      <4> QED BY <4>1, <4>2
    <3>3. CASE g.state \in {"ALIGNING", "PREPARING_SHOOT"}
      <4>1. new \in {g, TransitionTo(g, "PREPARING_SHOOT"),
                     TransitionTo(g, "ALIGNING"), TransitionTo(g, "SEARCHING")}
        BY <2>2, <3>3 DEF Game2Successors
      <4> QED BY <1>0, <2>3, <3>3, <4>1, TransitionAims
    <3> QED BY <2>3, <3>1, <3>2, <3>3 DEF Game2s, AimStates
  <2>5. drive' \in {"ZERO", "MANUAL", "AIM"}
    BY <1>0, <2>2 DEF Game2Drives
  <2>6. Game2Belt /\ belt' \in Nat
    <3>1. CASE new.state = "PREPARING_SHOOT"
      BY <2>2, <2>4, <3>1 DEF Game2Belt, Game2s
    <3>2. CASE new.state # "PREPARING_SHOOT" /\ game2.state = "PREPARING_SHOOT"
      BY <2>2, <3>2 DEF Game2Belt
    <3>3. CASE new.state # "PREPARING_SHOOT" /\ game2.state # "PREPARING_SHOOT"
      BY <1>0, <2>2, <3>3 DEF Game2Belt
    <3> QED BY <3>1, <3>2, <3>3
  <2>7. /\ UNCHANGED <<launch, pad, last, joy, fire, slow, sent>>
        /\ game2.state # "STANDBY"
    BY <1>4 DEF Game2Control
  <2> QED BY <1>0, <2>2, <2>4, <2>5, <2>6, <2>7 DEF Game2Hears
<1>5. ASSUME NEW c \in CycleStates, Game2HearsCycle(c),
             UNCHANGED <<launch, pad, last, joy, drive, fire, slow, sent>>
      PROVE  Game2Effect
  <2> DEFINE f == (c = "FEEDING")
             g == IF ShotFired(c) THEN TransitionTo(game2, "SEARCHING")
                  ELSE game2
             t == [g EXCEPT !.feeding = f]
  <2>1. Game2Becomes(t)
    BY <1>5 DEF Game2HearsCycle
  <2>2. f \in BOOLEAN
    OBVIOUS
  <2>3. /\ g \in Game2s /\ Aims(g)
        /\ g.state = game2.state => g = game2
        /\ game2.state = "STANDBY" => g = game2
    BY <1>0, TransitionAims DEF ShotFired
  <2> HIDE DEF f, g
  <2>4. t \in Game2s /\ t.state = g.state /\ t.level = g.level
    BY <2>2, <2>3 DEF Game2s
  <2> HIDE DEF t
  <2>5. game2' = t /\ Game2Belt /\ belt' \in Nat
    BY <1>0, <2>1, <2>3, <2>4, Game2BecomesBelt
  <2> QED BY <1>0, <1>5, <2>3, <2>4, <2>5 DEF Game2Hears, Aims
<1> QED BY <1>1, <1>2, <1>3, <1>4, <1>5 DEF Game2Next
-----------------------------------------------------------------------------
(* The nodes together. *)

\* What concerns the requests under way.
StartInv == OneDriver /\ Game2Only /\ LastStart

LEMMA JoyStepInv ==
  ASSUME AutoInv, JoyEffect, UNCHANGED <<pk, game2, cycle>>
  PROVE  AutoInv' /\ OwnerStep
<1>1. TypeOK'
  BY DEF JoyEffect, JoyTypes, AutoInv, TypeOK
<1>2. joy'.game2 \in BOOLEAN
  BY DEF JoyEffect, JoyTypes, Joys
<1>3. StartInv'
  <2> USE DEF AutoInv, StartInv, OneDriver, Game2Only, LastStart
  <2>1. launch' = launch /\ JoyTells
    BY DEF JoyEffect
  <2>2. CASE launch # "game2"
    BY <2>1, <2>2
  <2>3. CASE sent'.start = sent.start /\ joy'.game2 = joy.game2
    BY <2>1, <2>3
  <2>4. CASE /\ sent'.start # <<>>
             /\ sent'.start[Len(sent'.start)] = joy'.game2
    BY <1>2, <2>1, <2>4
  <2> QED BY <2>1, <2>2, <2>3, <2>4 DEF JoyTells
<1>4. OwnerStep
  BY DEF JoyEffect, JoyBelt, BeltsHaveOwner, OwnerStep
<1>5. StoppedIsStill'
  BY DEF JoyEffect
<1> QED BY <1>1, <1>3, <1>4, <1>5 DEF AutoInv, StartInv, AimsAtTarget,
           LockedLevel

LEMMA PkStepInv ==
  ASSUME AutoInv, PkEffect, UNCHANGED <<game2, cycle>>
  PROVE  AutoInv' /\ OwnerStep
<1>1. TypeOK'
  BY DEF PkEffect, AutoInv, TypeOK
<1>2. StartInv'
  BY DEF PkEffect, AutoInv, StartInv, OneDriver, Game2Only, LastStart
<1>3. OwnerStep
  BY DEF PkEffect, PkBelt, BeltsHaveOwner, OwnerStep
<1> QED BY <1>1, <1>2, <1>3 DEF PkEffect, AutoInv, StartInv, StoppedIsStill,
           AimsAtTarget

LEMMA Game2StepInv ==
  ASSUME AutoInv, Game2Effect, pk' = pk, cycle' \in Cycles,
         cycle'.phase = cycle.phase, cycle'.auto = cycle.auto
  PROVE  AutoInv' /\ OwnerStep
<1>1. TypeOK'
  BY DEF Game2Effect, AutoInv, TypeOK
<1>2. joy.game2 \in BOOLEAN /\ sent.start \in Seq(BOOLEAN) /\ joy' = joy
      /\ launch' = launch
  BY DEF AutoInv, TypeOK, Joys, Requests, Game2Effect
<1>3. StartInv'
  <2> USE DEF AutoInv, StartInv, OneDriver, Game2Only, LastStart
  <2>1. CASE /\ sent'.start = sent.start
             /\ game2.state = "STANDBY" => game2'.state = "STANDBY"
    BY <1>2, <2>1
  <2>2. CASE /\ launch = "game2" /\ sent.start # <<>>
             /\ sent'.start = Tail(sent.start)
             /\ ~Head(sent.start) => game2'.state = "STANDBY"
    <3>1. /\ Head(sent.start) \in BOOLEAN
          /\ Tail(sent.start) # <<>> =>
               Tail(sent.start)[Len(Tail(sent.start))] = joy.game2
          /\ Tail(sent.start) = <<>> => joy.game2 = Head(sent.start)
      BY <1>2, <2>2, LastOfTail
    <3> QED BY <1>2, <2>2, <3>1
  <2> QED BY <2>1, <2>2 DEF Game2Effect, Game2Hears
<1>4. OwnerStep
  BY DEF Game2Effect, Game2Belt, BeltsHaveOwner, OwnerStep
<1> QED BY <1>1, <1>3, <1>4 DEF Game2Effect, AutoInv, StartInv,
           StoppedIsStill, AimsAtTarget, Aims, LockedLevel

\* The belts stop, turn for the cycle, or are left alone by a cycle that goes
\* on; or the cycle is aborted.
CycleBelt ==
  \/ belt' = 0
  \/ cycle'.phase # "IDLE" /\ cycle'.auto /\ belt' = SpinupLevel
  \/ /\ belt' = belt
     /\ cycle.phase # "IDLE" /\ cycle.auto =>
          cycle'.phase # "IDLE" /\ cycle'.auto
  \/ Aborts

\* A step of the shot cycle.
CycleEffect ==
  /\ cycle' \in Cycles /\ CycleBelt /\ belt' \in Nat
  /\ sent' \in Requests /\ sent'.start = sent.start
  /\ UNCHANGED <<launch, pad, last, joy, drive, fire, slow, pk, game2>>

\* What is told changes nothing of the cycle itself.
LEMMA ToldIsCycle ==
  ASSUME cycle \in Cycles
  PROVE  /\ Told \in Cycles /\ Told.phase = cycle.phase
         /\ Told.auto = cycle.auto
<1> DEFINE phase == cycle.phase
           news == cycle.news \/ cycle.phase # cycle.told
<1>1. Told = IF launch # "game2" THEN cycle
             ELSE [cycle EXCEPT !.told = phase, !.news = news]
  BY DEF Told
<1>2. phase \in CycleStates /\ news \in BOOLEAN
  BY DEF Cycles
<1> HIDE DEF phase, news
<1> QED BY <1>1, <1>2 DEF Cycles

LEMMA CycleTimerEffect ==
  ASSUME cycle \in Cycles, belt \in Nat, NEW stopped \in BOOLEAN,
         CycleTimer(stopped)
  PROVE  cycle' \in Cycles /\ CycleBelt /\ belt' \in Nat
<1>0. SpinupLevel \in Nat
  BY AutoAssumption, MaxLevelIsNat
<1>1. CASE cycle' = [Told EXCEPT !.stop = stopped] /\ belt' = belt
  <2>1. cycle' \in Cycles /\ cycle'.phase = cycle.phase
        /\ cycle'.auto = cycle.auto
    BY <1>1, ToldIsCycle DEF Cycles
  <2> QED BY <1>1, <2>1 DEF CycleBelt
<1>2. ASSUME cycle.phase # "IDLE", NEW new \in PhasesAfter(cycle.phase),
             cycle' = [Told EXCEPT !.stop = stopped, !.phase = new,
                                   !.auto = @ /\ new # "IDLE"],
             belt' = CASE ~cycle.auto -> belt
                       [] new = "IDLE" -> 0
                       [] OTHER -> SpinupLevel
      PROVE  cycle' \in Cycles /\ CycleBelt /\ belt' \in Nat
  <2> DEFINE auto == Told.auto /\ new # "IDLE"
  <2>1. cycle' = [Told EXCEPT !.stop = stopped, !.phase = new, !.auto = auto]
    BY <1>2
  <2>2. new \in CycleStates /\ auto \in BOOLEAN /\ cycle.auto \in BOOLEAN
    BY <1>2, ToldIsCycle DEF PhasesAfter, CycleStates, Cycles
  <2>3. cycle.auto /\ new # "IDLE" => auto
    BY ToldIsCycle
  <2> HIDE DEF auto
  <2>4. cycle' \in Cycles /\ cycle'.phase = new /\ cycle'.auto = auto
    <3> DEFINE a == [Told EXCEPT !.stop = stopped, !.phase = new]
    <3>1. a \in Cycles /\ a.phase = new
      BY <2>2, ToldIsCycle DEF Cycles
    <3>2. cycle' = [a EXCEPT !.auto = auto]
      BY <2>1
    <3> HIDE DEF a
    <3> QED BY <2>2, <3>1, <3>2 DEF Cycles
  <2>5. CASE ~cycle.auto
    BY <1>2, <2>4, <2>5 DEF CycleBelt
  <2>6. CASE cycle.auto /\ new = "IDLE"
    BY <1>2, <2>4, <2>6 DEF CycleBelt
  <2>7. CASE cycle.auto /\ new # "IDLE"
    <3>1. belt' = SpinupLevel /\ cycle'.auto /\ cycle'.phase # "IDLE"
      BY <1>2, <2>3, <2>4, <2>7
    <3> QED BY <1>0, <2>4, <3>1 DEF CycleBelt
  <2> QED BY <2>2, <2>5, <2>6, <2>7
<1> QED BY <1>1, <1>2 DEF CycleTimer

LEMMA CycleSteps ==
  ASSUME JoyTypes, cycle \in Cycles,
         CycleStart \/ CyclePosition \/ CycleControl \/ CycleStop
  PROVE  CycleEffect
<1> USE DEF CycleEffect
<1>0. sent \in Requests /\ belt \in Nat /\ SpinupLevel \in Nat
  BY AutoAssumption, MaxLevelIsNat DEF JoyTypes
<1>1. CASE CycleStart
  <2> DEFINE shot == sent.shot \ {"dribble"}
  <2>1. sent' = [sent EXCEPT !.shot = shot]
        /\ shot \in SUBSET {"dribble", "game2"}
    BY <1>0, <1>1 DEF CycleStart, Requests
  <2> HIDE DEF shot
  <2>2. sent' \in Requests /\ sent'.start = sent.start
    BY <1>0, <2>1 DEF Requests
  <2>3. CASE cycle.stop \/ cycle.phase # "IDLE"
    BY <1>0, <1>1, <2>2, <2>3 DEF CycleStart, CycleBelt
  <2>4. CASE ~(cycle.stop \/ cycle.phase # "IDLE")
    <3>1. PICK auto \in BOOLEAN :
            /\ cycle' = [cycle EXCEPT !.phase = "BELT_SPINUP", !.auto = auto]
            /\ belt' = IF auto THEN SpinupLevel ELSE belt
      BY <1>1, <2>4 DEF CycleStart
    <3>2. cycle' \in Cycles /\ cycle'.phase = "BELT_SPINUP"
          /\ cycle'.auto = auto
      BY <3>1 DEF Cycles, CycleStates
    <3>3. CycleBelt /\ belt' \in Nat
      BY <1>0, <2>4, <3>1, <3>2 DEF CycleBelt
    <3> QED BY <1>1, <2>2, <3>2, <3>3 DEF CycleStart
  <2> QED BY <2>3, <2>4
<1>2. CASE CyclePosition
  <2>1. PICK cancelled \in SUBSET {"dribble"} :
          sent' = [sent EXCEPT !.arm = @ - 1, !.shot = @ \ cancelled]
    BY <1>2 DEF CyclePosition
  <2> DEFINE shot == sent.shot \ cancelled
             arm == sent.arm - 1
  <2>2. /\ sent' = [sent EXCEPT !.arm = arm, !.shot = shot]
        /\ shot \in SUBSET {"dribble", "game2"}
        /\ arm \in Nat /\ arm < sent.arm
    <3>1. sent' = [sent EXCEPT !.arm = arm, !.shot = shot]
      BY <2>1
    <3>2. sent.arm > 0 /\ sent.arm \in Nat
      BY <1>0, <1>2 DEF CyclePosition, Requests
    <3>3. sent.shot \in SUBSET {"dribble", "game2"}
      BY <1>0 DEF Requests
    <3> QED BY <3>1, <3>2, <3>3
  <2> HIDE DEF shot, arm
  <2>3. sent' \in Requests /\ sent'.start = sent.start
        /\ sent'.arm < sent.arm
    BY <1>0, <2>2 DEF Requests
  <2>4. /\ belt' = belt
        /\ UNCHANGED <<launch, pad, last, joy, drive, fire, slow, pk, game2>>
    BY <1>2 DEF CyclePosition
  <2>5. CASE cycle.stop
    BY <1>0, <1>2, <2>3, <2>4, <2>5 DEF CyclePosition, CycleBelt
  <2>6. CASE ~cycle.stop
    <3>1. cycle' = [cycle EXCEPT !.phase = "IDLE"]
      BY <1>2, <2>6 DEF CyclePosition
    <3>2. cycle' \in Cycles /\ cycle'.phase = "IDLE"
      BY <3>1 DEF Cycles, CycleStates
    <3>3. CycleBelt
      BY <2>3, <2>4, <3>2 DEF CycleBelt, Aborts
    <3> QED BY <1>0, <2>3, <2>4, <3>2, <3>3
  <2> QED BY <2>5, <2>6
<1>3. CASE CycleControl
  <2>1. cycle.stop \in BOOLEAN /\ CycleTimer(cycle.stop)
    BY <1>3 DEF CycleControl, Cycles
  <2>2. cycle' \in Cycles /\ CycleBelt /\ belt' \in Nat
    BY <1>0, <2>1, CycleTimerEffect
  <2> QED BY <1>0, <1>3, <2>2 DEF CycleControl
<1>4. CASE CycleStop
  <2>1. joy.stop \in BOOLEAN /\ CycleTimer(joy.stop)
    BY <1>4 DEF CycleStop, JoyTypes, Joys
  <2>2. cycle' \in Cycles /\ CycleBelt /\ belt' \in Nat
    BY <1>0, <2>1, CycleTimerEffect
  <2> QED BY <1>0, <1>4, <2>2 DEF CycleStop
<1> QED BY <1>1, <1>2, <1>3, <1>4

LEMMA CycleStepInv ==
  ASSUME AutoInv, CycleEffect  PROVE AutoInv' /\ OwnerStep
<1>1. TypeOK'
  BY DEF CycleEffect, AutoInv, TypeOK
<1>2. OwnerStep
  BY DEF CycleEffect, CycleBelt, BeltsHaveOwner, OwnerStep
<1> QED BY <1>1, <1>2 DEF CycleEffect, AutoInv, StoppedIsStill, OneDriver,
           Game2Only, LastStart, AimsAtTarget, LockedLevel

LEMMA AutoStep == AutoInv /\ Next => AutoInv' /\ OwnerStep
<1> SUFFICES ASSUME AutoInv, Next  PROVE AutoInv' /\ OwnerStep
  OBVIOUS
<1>0. /\ JoyTypes /\ StoppedIsStill /\ pk \in Pks /\ LockedLevel
      /\ game2 \in Game2s /\ Aims(game2) /\ cycle \in Cycles
  BY DEF AutoInv, TypeOK, JoyTypes, AimsAtTarget, Aims
<1>1. CASE JoyNext /\ UNCHANGED <<pk, game2, cycle>>
  BY <1>0, <1>1, JoySteps, JoyStepInv
<1>2. CASE PkNext /\ UNCHANGED <<game2, cycle>>
  BY <1>0, <1>2, PkSteps, PkStepInv
<1>3. CASE Game2Next /\ UNCHANGED <<pk, cycle>>
  BY <1>0, <1>3, Game2Steps, Game2StepInv
<1>4. CASE JoyHearsAim
  <2> DEFINE shown == AimShown
  <2>1. joy' = [joy EXCEPT !.aimState = shown]
    BY <1>4 DEF JoyHearsAim
  <2>2. shown \in AimStates
    BY <1>0 DEF AimShown, AimState, AimStates, Pks, Game2s
  <2> HIDE DEF shown
  <2>3. joy' \in Joys
    BY <1>0, <2>1, <2>2 DEF JoyTypes, Joys
  <2>4. /\ joy'.level = joy.level /\ joy'.game2 = joy.game2
        /\ joy'.stop = joy.stop /\ joy'.timedOut = joy.timedOut
        /\ joy'.speed = joy.speed /\ joy'.dribble = joy.dribble
    BY <1>0, <2>1 DEF JoyTypes, Joys
  <2>5. UNCHANGED <<launch, pad, last, drive, fire, slow, belt, sent,
                    pk, game2, cycle>>
    BY <1>4 DEF JoyHearsAim
  <2>6. last' \in SUBSET SUBSET STRING /\ pad' \in SUBSET STRING
    BY <1>0, <2>5 DEF JoyTypes
  <2>7. JoyEffect
    BY <1>0, <2>3, <2>4, <2>5, <2>6, QuietStepEffect
  <2> QED BY <2>5, <2>7, JoyStepInv
<1>5. CASE CycleStart \/ CyclePosition \/ CycleControl \/ CycleStop
  BY <1>0, <1>5, CycleSteps, CycleStepInv
<1>6. CASE Game2HearsCycleState
  <2> DEFINE off == FALSE
  <2>1. cycle' = [cycle EXCEPT !.news = off] /\ off \in BOOLEAN
    BY <1>6 DEF Game2HearsCycleState
  <2> HIDE DEF off
  <2>2. cycle' \in Cycles /\ cycle'.phase = cycle.phase
        /\ cycle'.auto = cycle.auto
    BY <1>0, <2>1 DEF Cycles
  <2>3. cycle.told \in CycleStates
    BY <1>0 DEF Cycles
  <2>4. Game2Effect
    BY <1>0, <1>6, <2>3, Game2Steps DEF Game2HearsCycleState
  <2>5. pk' = pk
    BY <1>6 DEF Game2HearsCycleState
  <2> QED BY <2>2, <2>4, <2>5, Game2StepInv
<1> QED BY <1>1, <1>2, <1>3, <1>4, <1>5, <1>6 DEF Next

LEMMA AutoNextInv == AutoInv /\ [Next]_vars => AutoInv'
<1>1. ASSUME AutoInv, UNCHANGED vars  PROVE AutoInv'
  BY <1>1 DEF vars, AutoInv, TypeOK, StoppedIsStill, OneDriver, Game2Only,
     LastStart, AimsAtTarget, LockedLevel
<1> QED BY <1>1, AutoStep

\* AutoInv is inductive: in every state of the joystick node, the aiming
\* nodes and the shot cycle it holds, for every set of controls, number of
\* panels, belt levels and delay.
THEOREM AutoInvariant == Spec => []AutoInv
BY AutoInitInv, AutoNextInv, PTL DEF Spec

\* The variables of the four nodes keep their types; in particular the belt
\* level of the operator its range.  (the D-pad of loop_callback)
THEOREM AutoTypeCorrect == Spec => []TypeOK
BY AutoInvariant, PTL DEF AutoInv

\* During a stop, or while the joystick is silent, the joystick node asks for
\* no shot of the spring, no motion, no belts, no dribbler and no automatic
\* mode.  (publish_stop_commands and every handler that could undo it)
THEOREM StoppedIsStillAlways == Spec => []StoppedIsStill
BY AutoInvariant, PTL DEF AutoInv

\* The aiming node of game 2 drives only while the joystick node leaves it the
\* drive, or until it hears that it no longer does.  (game2_active_,
\* /game2/command_start)
THEOREM OneDriverAlways == Spec => []OneDriver
BY AutoInvariant, PTL DEF AutoInv

\* Of all the steps of the four nodes that publish to the belts, one alone
\* leaves belts that turn to nobody: a position of the arm that ends the cycle
\* that started them.  (/belt/command_mode, position_mode_callback)
THEOREM BeltsKeepOwnerAlways == Spec => BeltsKeepOwner
<1>1. AutoInv /\ [Next]_vars =>
        [BeltsHaveOwner /\ ~BeltsHaveOwner' =>
           /\ sent'.arm < sent.arm
           /\ cycle.auto /\ cycle.phase # "IDLE" /\ cycle'.phase = "IDLE"]_vars
  BY AutoStep DEF OwnerStep, Aborts
<1> QED BY <1>1, AutoInvariant, PTL DEF Spec, BeltsKeepOwner

\* So whoever moves the arm by hand only between cycles has belts that always
\* belong to someone who will turn them off.
THEOREM BeltsHaveOwnerUnlessAborted ==
  Spec /\ [][~Aborts]_vars => []BeltsHaveOwner
<1>1. Init => BeltsHaveOwner
  BY DEF Init, JoyInit, BeltsHaveOwner
<1>2. AutoInv /\ BeltsHaveOwner /\ [Next]_vars /\ [~Aborts]_vars
        => BeltsHaveOwner'
  <2>1. ASSUME BeltsHaveOwner, UNCHANGED vars  PROVE BeltsHaveOwner'
    BY <2>1 DEF vars, BeltsHaveOwner
  <2> QED BY <2>1, AutoStep DEF OwnerStep
<1> QED BY <1>1, <1>2, AutoInvariant, PTL DEF Spec

\* Game 2 aims exactly while it has a target.  (transition_to, clear_target)
THEOREM AimsAtTargetAlways == Spec => []AimsAtTarget
BY AutoInvariant, PTL DEF AutoInv

\* The penalty game shoots at the level of the panel that is selected.
\* (select_next, select_prev, lock_selected_target)
THEOREM LevelOfSelectedAlways == Spec => []LevelOfSelected
<1>1. AutoInv => LevelOfSelected
  BY DEF AutoInv, LockedLevel, LevelOfSelected
<1> QED BY <1>1, AutoInvariant, PTL
=============================================================================
