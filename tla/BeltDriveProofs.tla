--------------------------- MODULE BeltDriveProofs ---------------------------
(***************************************************************************)
(* Theorems about the belt controller and the VESC driver, for every value *)
(* of the constants: their types, that the emergency stop is heeded, and   *)
(* that the belt never turns faster than the highest speed of a target.    *)
(***************************************************************************)
EXTENDS BeltDrive, SequenceTheorems, TLAPS

\* What the driver will aim for once it has received everything.
Newest == IF queue = <<>> THEN vesc.target ELSE queue[Len(queue)]

\* The target that a stopped controller has sent last is zero, wherever it is.
Heeded == belt.alive /\ belt.stop /\ driverUp => Newest = 0

\* A driver that starts finds no messages.
Unheard == ~driverUp => queue = <<>>

IInv == TypeOK /\ Heeded /\ Unheard
-----------------------------------------------------------------------------
LEMMA WithinType ==
  ASSUME NEW x \in Int, NEW l \in Int, NEW h \in Int
  PROVE  Within(x, l, h) \in Int /\ (l <= h => Within(x, l, h) \in l..h)
BY DEF Within

\* Every state of the node wants some speed, and none when stopped.
LEMMA WantedType ==
  ASSUME NEW b \in Belts
  PROVE  Wanted(b) \in Nat /\ (b.stop => Wanted(b) = 0)
<1>1. CASE b.stop
  BY <1>1 DEF Wanted
<1>2. CASE ~b.stop
  <2>1. b.direct \in Nat
    BY DEF Belts
  <2>2. ASSUME b.mode # 0
        PROVE  b.rpms[b.mode] + b.steps * RpmPerStep \in Int
    <3>1. b.mode \in 1..Levels /\ b.rpms \in [1..Levels -> Nat]
      BY <2>2, BeltAssumption DEF Belts
    <3>2. b.rpms[b.mode] \in Nat
      BY <3>1
    <3>3. b.steps \in Int /\ RpmPerStep \in Int
      BY BeltAssumption DEF Belts
    <3> QED BY <3>2, <3>3
  <2> QED BY <1>2, <2>1, <2>2 DEF Wanted
<1> QED BY <1>1, <1>2

LEMMA PublishKeeps ==
  ASSUME TypeOK, NEW rpm \in Nat, Publish(rpm), UNCHANGED driverUp
  PROVE  /\ queue' \in Seq(Nat) /\ Len(queue') <= MaxQueue
         /\ driverUp => queue' # <<>> /\ queue'[Len(queue')] = rpm
         /\ Unheard'
<1> DEFINE q == Append(queue, rpm)
<1>1. queue \in Seq(Nat) /\ Len(queue) <= MaxQueue /\ MaxQueue \in Nat \ {0}
  BY BeltAssumption DEF TypeOK
<1>2. q \in Seq(Nat) /\ Len(q) = Len(queue) + 1 /\ q[Len(q)] = rpm
  BY <1>1
<1>3. CASE ~driverUp
  BY <1>1, <1>3 DEF Publish, Unheard
<1>4. CASE driverUp /\ ~(Len(q) > MaxQueue)
  BY <1>1, <1>2, <1>4 DEF Publish, Unheard
<1>5. CASE driverUp /\ Len(q) > MaxQueue
  <2>1. queue' = Tail(q)
    BY <1>5 DEF Publish
  <2> HIDE DEF q
  <2>2. Len(q) > 1
    BY <1>1, <1>5
  <2>3. Tail(q) \in Seq(Nat) /\ Len(Tail(q)) = Len(q) - 1
    BY <1>2, <2>2
  <2>4. Tail(q)[Len(q) - 1] = q[Len(q)]
    BY <1>2, <2>2
  <2> QED BY <1>1, <1>2, <1>5, <2>1, <2>2, <2>3, <2>4 DEF Unheard
<1> QED BY <1>3, <1>4, <1>5

\* Every callback of the controller keeps the invariant.
LEMMA BecomesKeeps ==
  ASSUME IInv, NEW b \in Belts, Becomes(b), DriveUnchanged
  PROVE  IInv'
<1>1. Wanted(b) \in Nat /\ (b.stop => Wanted(b) = 0)
  BY WantedType
<1>2. belt' = b /\ Publish(Wanted(b)) /\ UNCHANGED <<stop, driverUp>>
  BY DEF Becomes
<1>3. /\ queue' \in Seq(Nat) /\ Len(queue') <= MaxQueue
      /\ driverUp => queue' # <<>> /\ queue'[Len(queue')] = Wanted(b)
      /\ Unheard'
  BY <1>1, <1>2, PublishKeeps DEF IInv
<1>4. TypeOK'
  BY <1>2, <1>3 DEF IInv, TypeOK, DriveUnchanged
<1>5. Heeded'
  BY <1>1, <1>2, <1>3 DEF Heeded, Newest
<1> QED BY <1>3, <1>4, <1>5 DEF IInv

LEMMA BeltKeeps ==
  ASSUME IInv, BeltNext, DriveUnchanged
  PROVE  IInv'
<1>1. belt \in Belts /\ stop \in BOOLEAN /\ Levels \in Nat /\ MaxSteps \in Nat
  BY BeltAssumption DEF IInv, TypeOK
<1>2. CASE BeltMode
  <2>1. PICK mode \in Modes, step \in StepRequests :
          Becomes([belt EXCEPT !.useDirect = FALSE,
            !.mode = IF mode <= Levels THEN mode ELSE 0,
            !.steps = Within(@ + step, -MaxSteps, MaxSteps)])
    BY <1>2 DEF BeltMode
  <2> DEFINE level == IF mode <= Levels THEN mode ELSE 0
             steps == Within(belt.steps + step, -MaxSteps, MaxSteps)
  <2>2. level \in 0..Levels
    BY <1>1, BeltAssumption
  <2>3. belt.steps + step \in Int
    <3>1. belt.steps \in Int
      BY <1>1 DEF Belts
    <3>2. step \in Int
      BY BeltAssumption
    <3> QED BY <3>1, <3>2
  <2>4. steps \in (-MaxSteps)..MaxSteps
    <3>1. -MaxSteps \in Int /\ MaxSteps \in Int /\ -MaxSteps <= MaxSteps
      BY <1>1
    <3> QED BY <2>3, <3>1, WithinType
  <2>5. Becomes([belt EXCEPT !.useDirect = FALSE, !.mode = level, !.steps = steps])
    BY <2>1
  <2> HIDE DEF level, steps
  <2>6. [belt EXCEPT !.useDirect = FALSE, !.mode = level, !.steps = steps] \in Belts
    BY <1>1, <2>2, <2>4 DEF Belts
  <2> QED BY <2>5, <2>6, BecomesKeeps
<1>3. CASE BeltTargetRpm
  <2>1. PICK rpm \in DirectRpms, positive \in BOOLEAN :
          Becomes([belt EXCEPT !.useDirect = positive, !.direct = rpm])
    BY <1>3 DEF BeltTargetRpm
  <2>2. [belt EXCEPT !.useDirect = positive, !.direct = rpm] \in Belts
    BY <1>1, BeltAssumption DEF Belts
  <2> QED BY <2>1, <2>2, BecomesKeeps
<1>4. CASE SetLevelRpm
  <2>1. PICK level \in 1..Levels, rpm \in LevelRpms :
          Becomes([belt EXCEPT !.rpms[level] = rpm])
    BY <1>4 DEF SetLevelRpm
  <2>2. [belt.rpms EXCEPT ![level] = rpm] \in [1..Levels -> Nat]
    BY <1>1, BeltAssumption DEF Belts
  <2>3. [belt EXCEPT !.rpms[level] = rpm] \in Belts
    BY <1>1, <2>2 DEF Belts
  <2> QED BY <2>1, <2>3, BecomesKeeps
<1>5. CASE StopArrives
  <2>1. [belt EXCEPT !.stop = stop] \in Belts
    BY <1>1 DEF Belts
  <2> QED BY <1>5, <2>1, BecomesKeeps DEF StopArrives
<1>6. CASE Refresh
  BY <1>1, <1>6, BecomesKeeps DEF Refresh
<1>7. CASE RejectParameters
  <2>1. PICK level \in 1..Levels, rpm \in LevelRpms :
          belt' = [belt EXCEPT !.rpms[level] = rpm]
    BY <1>7 DEF RejectParameters
  <2>2. [belt.rpms EXCEPT ![level] = rpm] \in [1..Levels -> Nat]
    BY <1>1, BeltAssumption DEF Belts
  <2>3. belt' \in Belts /\ belt'.alive = belt.alive /\ belt'.stop = belt.stop
    BY <1>1, <2>1, <2>2 DEF Belts
  <2>4. UNCHANGED <<stop, driverUp, queue, vesc, wire, speed, phase>>
    BY <1>7 DEF RejectParameters, DriveUnchanged
  <2> QED BY <2>3, <2>4 DEF IInv, TypeOK, Heeded, Newest, Unheard
<1> QED BY <1>2, <1>3, <1>4, <1>5, <1>6, <1>7 DEF BeltNext, BeltRequests

LEMMA EnvironmentKeeps ==
  ASSUME IInv, Switch \/ NodeDies \/ NodeStarts, DriveUnchanged
  PROVE  IInv'
<1>1. belt \in Belts
  BY DEF IInv, TypeOK
<1>2. CASE Switch
  BY <1>2 DEF Switch, IInv, TypeOK, Heeded, Newest, Unheard,
           DriveUnchanged
<1>3. CASE NodeDies
  <2>1. belt' \in Belts /\ belt'.alive = FALSE
    BY <1>1, <1>3 DEF NodeDies, Belts
  <2> QED BY <1>3, <2>1 DEF NodeDies, IInv, TypeOK, Heeded, Unheard,
                DriveUnchanged
<1>4. CASE NodeStarts
  <2>1. belt.rpms \in [1..Levels -> Nat] /\ Levels \in Nat /\ MaxSteps \in Nat
    BY <1>1, BeltAssumption DEF Belts
  <2>2. belt' \in Belts /\ belt'.stop = FALSE
    BY <1>4, <2>1 DEF NodeStarts, Fresh, Belts
  <2> QED BY <1>4, <2>2 DEF NodeStarts, IInv, TypeOK, Heeded, Unheard,
                DriveUnchanged
<1> QED BY <1>2, <1>3, <1>4
-----------------------------------------------------------------------------
LEMMA ReceiveKeeps ==
  ASSUME IInv, ReceiveTarget
  PROVE  IInv'
<1> DEFINE goal == Within(Head(queue), -MaxRpm, MaxRpm)
<1>1. /\ queue \in Seq(Nat) /\ queue # <<>> /\ Len(queue) <= MaxQueue
      /\ vesc \in Vescs /\ queue' = Tail(queue) /\ MaxQueue \in Nat
      /\ MaxRpm \in Nat
  BY BeltAssumption, DriveAssumption DEF IInv, TypeOK, ReceiveTarget
<1>2. Head(queue) \in Nat /\ Head(queue) = queue[1]
  BY <1>1
<1>3. goal \in Int /\ (Head(queue) = 0 => goal = 0)
  BY <1>1, <1>2 DEF Within
<1>4. vesc' = [vesc EXCEPT !.target = goal, !.received = TRUE,
                 !.active = @ /\ goal # 0 /\ vesc.target * goal > 0]
  BY DEF ReceiveTarget
<1> HIDE DEF goal
<1>5. vesc' \in Vescs /\ vesc'.target = goal
  <2> DEFINE active == vesc.active /\ goal # 0 /\ vesc.target * goal > 0
  <2>1. active \in BOOLEAN
    BY <1>1 DEF Vescs
  <2>2. vesc' = [vesc EXCEPT !.target = goal, !.received = TRUE, !.active = active]
    BY <1>4
  <2> HIDE DEF active
  <2> QED BY <1>1, <1>3, <2>1, <2>2 DEF Vescs
<1>6. queue' \in Seq(Nat) /\ Len(queue') = Len(queue) - 1
  BY <1>1
<1>7. TypeOK'
  <2>1. Len(queue') <= MaxQueue
    BY <1>1, <1>6
  <2> QED BY <1>5, <1>6, <2>1 DEF IInv, TypeOK, ReceiveTarget
<1>8. Heeded'
  <2> SUFFICES ASSUME belt.alive, belt.stop, driverUp PROVE Newest' = 0
    BY DEF Heeded, ReceiveTarget
  <2>1. queue[Len(queue)] = 0
    BY <1>1 DEF IInv, Heeded, Newest
  <2>2. CASE Len(queue) = 1
    <3>1. queue' = <<>>
      BY <1>1, <2>2
    <3>2. goal = 0
      BY <1>2, <1>3, <2>1, <2>2
    <3> QED BY <1>5, <3>1, <3>2 DEF Newest
  <2>3. CASE Len(queue) # 1
    <3>1. Len(queue) \in Nat /\ Len(queue) > 1
      <4> DEFINE n == Len(queue)
      <4>1. n \in Nat \ {0} /\ n # 1
        BY <1>1, <2>3, EmptySeq
      <4> HIDE DEF n
      <4>2. n \in Nat /\ n > 1
        BY <4>1
      <4> QED BY <4>2 DEF n
    <3>2. queue'[Len(queue) - 1] = queue[Len(queue)]
      BY <1>1, <1>6, <3>1, HeadTailProperties
    <3>3. queue' # <<>>
      BY <1>6, <3>1
    <3> QED BY <1>6, <2>1, <3>2, <3>3 DEF Newest
  <2> QED BY <2>2, <2>3
<1>9. Unheard'
  BY DEF ReceiveTarget, Unheard
<1> QED BY <1>7, <1>8, <1>9 DEF IInv

LEMMA EngagedType ==
  ASSUME NEW v \in Vescs
  PROVE  Engaged(v) \in Vescs /\ Engaged(v).target = v.target
<1>1. CASE v.active \/ ~(Threshold = 0 \/ StartReached(v))
  BY <1>1 DEF Engaged
<1>2. CASE ~(v.active \/ ~(Threshold = 0 \/ StartReached(v)))
  <2> DEFINE rpm == CHOOSE r \in v.measured : TRUE
             command == IF Threshold = 0 THEN 0 ELSE rpm
  <2>1. v.measured \subseteq Int
    BY DEF Vescs
  <2>2. ASSUME Threshold # 0 PROVE rpm \in Int
    <3>1. \E r \in v.measured : TRUE
      BY <1>2, <2>2 DEF StartReached
    <3> QED BY <3>1, <2>1
  <2>3. command \in Int
    <3> HIDE DEF rpm
    <3> QED BY <2>2
  <2>4. Engaged(v) = [v EXCEPT !.active = TRUE, !.command = command]
    BY <1>2 DEF Engaged
  <2> HIDE DEF command
  <2> QED BY <2>3, <2>4 DEF Vescs
<1> QED BY <1>1, <1>2

LEMMA RampedType ==
  ASSUME NEW v \in Vescs
  PROVE  Ramped(v) \in Vescs /\ Ramped(v).target = v.target
<1>1. v.target - v.command \in Int /\ v.command \in Int /\ Slew \in Int
  BY DriveAssumption DEF Vescs
<1> DEFINE step == Within(v.target - v.command, -Slew, Slew)
           command == IF v.active THEN v.command + step ELSE v.command
<1>2. step \in Int
  BY <1>1, WithinType
<1>3. command \in Int
  <2> HIDE DEF step
  <2> QED BY <1>1, <1>2
<1>4. Ramped(v) = [v EXCEPT !.command = command]
  BY DEF Ramped
<1> HIDE DEF command
<1> QED BY <1>3, <1>4 DEF Vescs

LEMMA PeriodKeeps ==
  ASSUME IInv, Period
  PROVE  IInv'
<1>1. vesc \in Vescs /\ wire \in Frames
  BY DEF IInv, TypeOK
<1>2. vesc' \in Vescs /\ wire' \in Frames /\ vesc'.target = vesc.target
  <2>1. CASE ~vesc.received
    BY <1>1, <2>1 DEF Period, PublishMotorCommand
  <2>2. CASE vesc.received /\ vesc.target = 0
    <3>1. vesc' = [vesc EXCEPT !.active = FALSE, !.command = 0] /\ wire' = Idle
      BY <2>2 DEF Period, PublishMotorCommand
    <3>2. vesc' \in Vescs /\ vesc'.target = vesc.target
      <4>1. \A v \in Vescs : [v EXCEPT !.active = FALSE] \in Vescs
        BY DEF Vescs
      <4>2. \A v \in Vescs, c \in Int : [v EXCEPT !.command = c] \in Vescs
        BY DEF Vescs
      <4>3. vesc' = [[vesc EXCEPT !.active = FALSE] EXCEPT !.command = 0]
        BY <3>1
      <4>4. vesc' \in Vescs
        <5>1. [vesc EXCEPT !.active = FALSE] \in Vescs
          BY <1>1, <4>1
        <5>2. 0 \in Int
          OBVIOUS
        <5> QED BY <4>2, <4>3, <5>1, <5>2
      <4>5. vesc'.target = vesc.target
        BY <1>1, <3>1 DEF Vescs
      <4> QED BY <4>4, <4>5
    <3>3. wire' \in Frames
      BY <3>1 DEF Frames, Idle
    <3> QED BY <3>2, <3>3
  <2>3. CASE vesc.received /\ vesc.target # 0
    <3>1. vesc' = Ramped(Engaged(vesc)) /\ wire' = FrameOf(vesc')
      BY <2>3 DEF Period, PublishMotorCommand
    <3>2. vesc' \in Vescs /\ vesc'.target = vesc.target
      BY <1>1, <3>1, EngagedType, RampedType
    <3>3. wire' \in Frames
      BY <3>1, <3>2 DEF FrameOf, Frames, Vescs
    <3> QED BY <3>2, <3>3
  <2> QED BY <2>1, <2>2, <2>3
<1> QED BY <1>2 DEF Period, IInv, TypeOK, Heeded, Newest, Unheard

LEMMA StatusKeeps ==
  ASSUME IInv, Status
  PROVE  IInv'
<1>1. vesc \in Vescs /\ speed \in Int
  BY DriveAssumption DEF IInv, TypeOK
<1>2. {speed} \in SUBSET Int
  BY <1>1
<1>3. vesc' \in Vescs /\ vesc'.target = vesc.target
  BY <1>1, <1>2 DEF Status, Vescs
<1> QED BY <1>3 DEF Status, IInv, TypeOK, Heeded, Newest, Unheard

LEMMA MotorKeeps ==
  ASSUME IInv, MotorTurns
  PROVE  IInv'
<1>1. speed \in Int /\ wire.value \in Int /\ FreeSpeed \in Nat
  BY DriveAssumption DEF IInv, TypeOK, Frames
<1> DEFINE goal == IF wire.mode = "RPM" \/ wire.value = 0 THEN wire.value
                   ELSE wire.value * FreeSpeed
           step == Within(goal - speed, -1, 1)
<1>2. goal \in Int
  BY <1>1
<1>3. speed' = Within(speed + step, 0, FreeSpeed)
  BY DEF MotorTurns
<1>4. step \in Int
  <2> HIDE DEF goal
  <2> QED BY <1>1, <1>2, WithinType
<1>5. speed' \in 0..FreeSpeed
  <2> HIDE DEF step
  <2> QED BY <1>1, <1>3, <1>4, WithinType
<1> QED BY <1>5 DEF MotorTurns, IInv, TypeOK, Heeded, Newest, Unheard

LEMMA RestartKeeps ==
  ASSUME IInv, DriverEnds \/ DriverStarts
  PROVE  IInv'
<1>1. NewVesc \in Vescs /\ Idle \in Frames /\ NewVesc.target = 0
  BY DEF NewVesc, Vescs, Idle, Frames
<1>2. CASE DriverEnds
  <2>1. queue' = <<>> /\ queue' \in Seq(Nat) /\ Len(queue') <= MaxQueue
    BY <1>2, BeltAssumption DEF DriverEnds
  <2> QED BY <1>1, <1>2, <2>1 DEF DriverEnds, IInv, TypeOK, Heeded, Unheard
<1>3. CASE DriverStarts
  <2>1. TypeOK'
    BY <1>1, <1>3 DEF DriverStarts, IInv, TypeOK
  <2>2. Heeded'
    BY <1>1, <1>3 DEF DriverStarts, IInv, Unheard, Heeded, Newest
  <2>3. Unheard'
    BY <1>3 DEF DriverStarts, Unheard
  <2> QED BY <2>1, <2>2, <2>3 DEF IInv
<1> QED BY <1>2, <1>3

LEMMA InitKeeps == Init => IInv
<1> SUFFICES ASSUME Init PROVE IInv
  OBVIOUS
<1>1. PICK rpms \in [1..Levels -> LevelRpms] : belt = Fresh(rpms)
  BY DEF Init, BeltInit
<1>2. /\ rpms \in [1..Levels -> Nat] /\ Levels \in Nat /\ MaxSteps \in Nat
      /\ MaxQueue \in Nat /\ FreeSpeed \in Nat
  BY BeltAssumption, DriveAssumption
<1>3. belt \in Belts /\ belt.stop = FALSE
  BY <1>1, <1>2 DEF Fresh, Belts
<1>4. vesc \in Vescs /\ wire \in Frames
  BY DEF Init, NewVesc, Idle, Vescs, Frames
<1>5. queue \in Seq(Nat) /\ Len(queue) <= MaxQueue
  BY <1>2 DEF Init, BeltInit
<1> QED BY <1>2, <1>3, <1>4, <1>5 DEF Init, BeltInit, IInv, TypeOK, Heeded, Unheard

LEMMA NextKeeps == IInv /\ [Next]_vars => IInv'
<1> SUFFICES ASSUME IInv, [Next]_vars PROVE IInv'
  OBVIOUS
<1>1. CASE ControllerNext
  BY <1>1, BeltKeeps, EnvironmentKeeps DEF ControllerNext
<1>2. CASE DriverNext
  BY <1>2, ReceiveKeeps, PeriodKeeps, StatusKeeps DEF DriverNext
<1>3. CASE MotorTurns \/ DriverEnds \/ DriverStarts
  BY <1>3, MotorKeeps, RestartKeeps
<1>4. CASE UNCHANGED vars
  BY <1>4 DEF vars, IInv, TypeOK, Heeded, Newest, Unheard
<1> QED BY <1>1, <1>2, <1>3, <1>4 DEF Next
-----------------------------------------------------------------------------
(***************************************************************************)
(* The speed of the motor.                                                 *)
(***************************************************************************)
\* Room for one more turn of the motor under the startup current.
Margin == speed < MaxRpm \/ speed = 0

\* What the driver holds and what the VESC was told bound the speed: a current
\* flows into a turning only where there is room for it, since at each period
\* the driver knows the speed, or has just started, after a turning without
\* current.
Bounded ==
  /\ speed <= MaxRpm
  /\ vesc.target \in 0..MaxRpm /\ vesc.command <= MaxRpm
  /\ wire.mode = "RPM" => wire.value <= MaxRpm
  /\ phase = "TURN" /\ wire.mode = "CURRENT" /\ wire.value > 0
       => speed < MaxRpm
  /\ ~driverUp \/ ~vesc.received => wire = Idle
  /\ phase = "PERIOD" => \/ vesc.measured = {speed}
                         \/ vesc.measured = {} /\ Margin
  /\ ~driverUp /\ phase = "STATUS" => Margin

\* The driver's target stays within max_rpm.
LEMMA ReceiveBounds ==
  ASSUME IInv, Bounded, ReceiveTarget
  PROVE  Bounded'
<1> DEFINE goal == Within(Head(queue), -MaxRpm, MaxRpm)
           active == vesc.active /\ goal # 0 /\ vesc.target * goal > 0
<1>1. /\ queue \in Seq(Nat) /\ queue # <<>> /\ vesc \in Vescs /\ MaxRpm \in Nat
  BY DriveAssumption DEF IInv, TypeOK, ReceiveTarget
<1>2. Head(queue) \in Nat
  BY <1>1
<1>3. goal \in 0..MaxRpm
  BY <1>1, <1>2 DEF Within
<1>4. vesc' = [vesc EXCEPT !.target = goal, !.received = TRUE, !.active = active]
  BY DEF ReceiveTarget
<1> HIDE DEF goal, active
<1>5. /\ vesc'.target = goal /\ vesc'.command = vesc.command
      /\ vesc'.measured = vesc.measured /\ vesc'.received = TRUE
  BY <1>1, <1>4 DEF Vescs
<1> QED BY <1>3, <1>5 DEF ReceiveTarget, Bounded, Margin

\* Where speed control does not begin, the motor is slower than the target.
LEMMA StartsBelow ==
  ASSUME NEW v \in Vescs, v.target \in 1..MaxRpm, NEW rpm \in Nat,
         v.measured = {rpm}, ~StartReached(v)
  PROVE  rpm < v.target
<1>1. Threshold \in Nat /\ v.target \in Nat /\ MaxRpm \in Nat
  BY DriveAssumption
<1>2. CASE rpm = 0
  BY <1>1, <1>2
<1>3. CASE rpm > 0
  <2>1. v.target * rpm > 0
    <3>1. \A m \in Nat : \A n \in Nat : m > 0 /\ n > 0 => m * n > 0
      OBVIOUS
    <3>2. v.target > 0
      BY <1>1
    <3> QED BY <1>1, <1>3, <3>1, <3>2
  <2>2. ~(Magnitude(rpm) >= Within(Magnitude(v.target), 0, Threshold))
    BY <2>1 DEF StartReached
  <2>3. Magnitude(rpm) = rpm /\ Magnitude(v.target) = v.target
    BY <1>1 DEF Magnitude
  <2>4. /\ Within(v.target, 0, Threshold) <= v.target
        /\ Within(v.target, 0, Threshold) \in Int
    BY <1>1 DEF Within
  <2> QED BY <1>1, <2>2, <2>3, <2>4
<1> QED BY <1>2, <1>3

\* Speed control begins from the measured speed, or from zero.
LEMMA EngagedBounds ==
  ASSUME NEW v \in Vescs, v.command <= MaxRpm, NEW rpm \in 0..MaxRpm,
         v.measured \in {{}, {rpm}}
  PROVE  /\ Engaged(v).command <= MaxRpm
         /\ ~Engaged(v).active => Engaged(v) = v /\ ~StartReached(v)
<1>1. CASE v.active \/ ~(Threshold = 0 \/ StartReached(v))
  BY <1>1 DEF Engaged
<1>2. CASE ~(v.active \/ ~(Threshold = 0 \/ StartReached(v)))
  <2> DEFINE r == CHOOSE r \in v.measured : TRUE
             command == IF Threshold = 0 THEN 0 ELSE r
  <2>1. ASSUME Threshold # 0 PROVE r = rpm
    <3>1. \E m \in v.measured : TRUE
      BY <1>2, <2>1 DEF StartReached
    <3>2. v.measured = {rpm}
      BY <3>1
    <3> QED BY <3>2
  <2>2. command \in 0..MaxRpm
    <3> HIDE DEF r
    <3> QED BY <2>1, DriveAssumption
  <2>3. Engaged(v) = [v EXCEPT !.active = TRUE, !.command = command]
    BY <1>2 DEF Engaged
  <2> HIDE DEF command
  <2>4. Engaged(v).active = TRUE /\ Engaged(v).command = command
    BY <2>3 DEF Vescs
  <2> QED BY <2>2, <2>4, DriveAssumption
<1> QED BY <1>1, <1>2

\* The ramp ends at the target.
LEMMA RampedBounds ==
  ASSUME NEW v \in Vescs, v.command <= MaxRpm, v.target <= MaxRpm
  PROVE  Ramped(v).command <= MaxRpm /\ Ramped(v).active = v.active
         /\ Ramped(v).measured = v.measured /\ Ramped(v).received = v.received
<1>1. v.target \in Int /\ v.command \in Int /\ Slew \in Nat /\ MaxRpm \in Nat
  BY DriveAssumption DEF Vescs
<1> DEFINE command == IF v.active
                      THEN v.command + Within(v.target - v.command, -Slew, Slew)
                      ELSE v.command
<1>2. command <= MaxRpm
  BY <1>1 DEF Within
<1>3. Ramped(v) = [v EXCEPT !.command = command]
  BY DEF Ramped
<1> HIDE DEF command
<1> QED BY <1>2, <1>3 DEF Vescs

LEMMA PeriodBounds ==
  ASSUME IInv, Bounded, Period
  PROVE  Bounded'
<1>0. /\ vesc \in Vescs /\ wire \in Frames /\ speed \in Nat /\ MaxRpm \in Nat
      /\ speed <= MaxRpm /\ driverUp /\ vesc.target \in 0..MaxRpm
      /\ vesc.command <= MaxRpm
      /\ vesc.measured = {speed} \/ (vesc.measured = {} /\ Margin)
  BY DriveAssumption DEF IInv, TypeOK, Bounded, Period
<1>1. /\ phase' = "TURN" /\ UNCHANGED <<driverUp, speed>>
  BY DEF Period
<1>2. CASE ~vesc.received
  <2>1. vesc' = vesc /\ wire' = wire /\ wire = Idle
    BY <1>2 DEF Period, PublishMotorCommand, Bounded
  <2> QED BY <1>0, <1>1, <2>1 DEF Bounded, Idle
<1>3. CASE vesc.received /\ vesc.target = 0
  <2>1. vesc' = [vesc EXCEPT !.active = FALSE, !.command = 0] /\ wire' = Idle
    BY <1>3 DEF Period, PublishMotorCommand
  <2>2. vesc'.command = 0 /\ vesc'.target = vesc.target
    BY <1>0, <2>1 DEF Vescs
  <2> QED BY <1>0, <1>1, <2>1, <2>2 DEF Bounded, Idle
<1>4. CASE vesc.received /\ vesc.target # 0
  <2> DEFINE v == Engaged(vesc)
  <2>1. vesc' = Ramped(v) /\ wire' = FrameOf(vesc')
    BY <1>4 DEF Period, PublishMotorCommand
  <2>2. v \in Vescs /\ v.target = vesc.target
    BY <1>0, EngagedType
  <2>3. /\ v.command <= MaxRpm
        /\ ~v.active => v = vesc /\ ~StartReached(vesc)
    <3>1. speed \in 0..MaxRpm
      BY <1>0
    <3> QED BY <1>0, <3>1, EngagedBounds
  <2>4. v.received = TRUE
    BY <1>0, <1>4 DEF Engaged, Vescs
  <2> HIDE DEF v
  <2>5. /\ vesc' \in Vescs /\ vesc'.target = vesc.target
        /\ vesc'.command <= MaxRpm /\ vesc'.active = v.active
        /\ vesc'.received = TRUE
    BY <1>0, <2>1, <2>2, <2>3, <2>4, RampedType, RampedBounds
  <2>6. CASE v.active
    <3>1. wire' = [mode |-> "RPM", value |-> vesc'.command]
      BY <2>1, <2>5, <2>6 DEF FrameOf
    <3>2. wire'.mode = "RPM" /\ wire'.value <= MaxRpm
      BY <2>5, <3>1
    <3> QED BY <1>0, <1>1, <2>5, <3>2 DEF Bounded
  <2>7. CASE ~v.active
    <3>1. wire'.mode = "CURRENT"
      BY <2>1, <2>5, <2>7 DEF FrameOf
    <3>2. speed < MaxRpm
      <4>1. vesc.target \in 1..MaxRpm
        BY <1>0, <1>4
      <4>2. CASE vesc.measured = {speed}
        <5>1. speed < vesc.target
          BY <1>0, <2>3, <2>7, <4>1, <4>2, StartsBelow
        <5> QED BY <1>0, <4>1, <5>1
      <4>3. CASE Margin
        BY <1>0, <4>1, <4>3 DEF Margin
      <4> QED BY <1>0, <4>2, <4>3
    <3> QED BY <1>0, <1>1, <2>5, <3>1, <3>2 DEF Bounded
  <2> QED BY <2>6, <2>7
<1> QED BY <1>2, <1>3, <1>4

\* A speed is approached from below, and a current adds one where there is room.
LEMMA MotorBounds ==
  ASSUME IInv, Bounded, MotorTurns
  PROVE  Bounded'
<1>0. /\ speed \in Nat /\ wire.value \in Int /\ FreeSpeed \in Nat
      /\ MaxRpm \in Nat /\ speed <= MaxRpm /\ wire \in Frames
      /\ speed <= FreeSpeed
  BY DriveAssumption DEF IInv, TypeOK, Bounded, Frames
<1>1. /\ phase' = "STATUS" /\ UNCHANGED <<driverUp, vesc, wire>>
      /\ phase = "TURN" \/ ~driverUp
  BY DEF MotorTurns
<1> DEFINE goal == IF wire.mode = "RPM" \/ wire.value = 0 THEN wire.value
                   ELSE wire.value * FreeSpeed
           step == Within(goal - speed, -1, 1)
<1>2. goal \in Int
  BY <1>0
<1>3. speed' = Within(speed + step, 0, FreeSpeed)
  BY DEF MotorTurns
<1>4. /\ step \in -1..1 /\ (goal <= speed => step <= 0)
      /\ goal < speed => step = -1
  <2> HIDE DEF goal
  <2> QED BY <1>0, <1>2 DEF Within
<1>5. speed' \in Nat /\ (speed' <= speed + step \/ speed' = 0)
  <2> HIDE DEF step
  <2> QED BY <1>0, <1>3, <1>4 DEF Within
<1>6. CASE goal <= speed
  <2>1. speed' <= MaxRpm
    <3> HIDE DEF goal, step
    <3> QED BY <1>0, <1>4, <1>5, <1>6
  <2>2. ~driverUp => speed' < MaxRpm \/ speed' = 0
    <3> SUFFICES ASSUME ~driverUp PROVE speed' < MaxRpm \/ speed' = 0
      OBVIOUS
    <3>1. goal = 0
      BY DEF Bounded, Idle
    <3> HIDE DEF goal, step
    <3> QED BY <1>0, <1>4, <1>5, <3>1
  <2> QED BY <1>0, <1>1, <2>1, <2>2 DEF Bounded, Margin
<1>7. CASE ~(goal <= speed)
  <2>1. driverUp
    <3> SUFFICES ASSUME ~driverUp PROVE FALSE
      OBVIOUS
    <3>1. goal = 0
      BY DEF Bounded, Idle
    <3> HIDE DEF goal, step
    <3> QED BY <1>0, <1>7, <3>1
  <2>2. goal <= MaxRpm \/ speed < MaxRpm
    <3>1. CASE wire.mode = "RPM"
      BY <3>1 DEF Bounded
    <3>2. CASE wire.mode = "CURRENT"
      <4>1. wire.value > 0
        <5>1. CASE wire.value = 0
          BY <1>0, <1>7, <5>1
        <5>2. CASE wire.value < 0
          <6>1. \A m \in Int, n \in Nat : m < 0 => m * n <= 0
            OBVIOUS
          <6>2. goal <= 0
            BY <1>0, <3>2, <5>2, <6>1
          <6> HIDE DEF goal, step
          <6> QED BY <1>0, <1>2, <1>7, <6>2
        <5> HIDE DEF goal, step
        <5> QED BY <1>0, <5>1, <5>2
      <4> QED BY <1>1, <2>1, <3>2, <4>1 DEF Bounded
    <3> QED BY <1>0, <3>1, <3>2 DEF Frames
  <2>3. speed < MaxRpm
    <3> HIDE DEF goal, step
    <3> QED BY <1>0, <1>2, <1>7, <2>2
  <2>4. speed' <= MaxRpm
    <3> HIDE DEF goal, step
    <3> QED BY <1>0, <1>4, <1>5, <2>3
  <2> QED BY <1>0, <1>1, <2>1, <2>4 DEF Bounded, Margin
<1> QED BY <1>6, <1>7

LEMMA OtherBounds ==
  ASSUME IInv, Bounded,
         \/ DriveUnchanged /\ UNCHANGED driverUp
         \/ Status \/ DriverEnds \/ DriverStarts
  PROVE  Bounded'
<1>0. vesc \in Vescs /\ speed \in Nat /\ MaxRpm \in Nat
  BY DriveAssumption DEF IInv, TypeOK
<1>1. CASE DriveUnchanged /\ UNCHANGED driverUp
  BY <1>1 DEF DriveUnchanged, Bounded, Margin
<1>2. CASE Status
  <2>1. /\ vesc'.measured = {speed} /\ vesc'.target = vesc.target
        /\ vesc'.command = vesc.command /\ vesc'.received = vesc.received
    BY <1>0, <1>2 DEF Status, Vescs
  <2> QED BY <1>2, <2>1 DEF Status, Bounded
<1>3. CASE DriverEnds
  BY <1>3 DEF DriverEnds, Bounded, Idle
<1>4. CASE DriverStarts
  BY <1>0, <1>4 DEF DriverStarts, NewVesc, Bounded, Margin
<1> QED BY <1>1, <1>2, <1>3, <1>4

LEMMA InitBounds == Init => Bounded
BY DriveAssumption DEF Init, NewVesc, Idle, Bounded, Margin

LEMMA NextBounds ==
  ASSUME IInv, Bounded, [Next]_vars
  PROVE  Bounded'
<1>1. CASE ControllerNext \/ UNCHANGED vars
  <2>1. DriveUnchanged /\ UNCHANGED driverUp
    BY <1>1 DEF ControllerNext, DriveUnchanged, vars, BeltNext, BeltRequests,
                BeltMode, BeltTargetRpm, SetLevelRpm, RejectParameters,
                StopArrives, Refresh, Becomes, Switch, NodeDies, NodeStarts
  <2> QED BY <2>1, OtherBounds
<1>2. CASE DriverNext
  BY <1>2, ReceiveBounds, PeriodBounds, OtherBounds DEF DriverNext
<1>3. CASE MotorTurns \/ DriverEnds \/ DriverStarts
  BY <1>3, MotorBounds, OtherBounds
<1> QED BY <1>1, <1>2, <1>3 DEF Next
-----------------------------------------------------------------------------
LEMMA Invariant == Spec => []IInv
BY InitKeeps, NextKeeps, PTL DEF Spec

\* The controller never asks for a speed below zero, the queue to the driver
\* never holds more than its depth, and every driver, frame and motor state has
\* its type (publish_command, publish_motor_command).
THEOREM TypeCorrect == Spec => []TypeOK
<1>1. IInv => TypeOK
  BY DEF IInv
<1> QED BY <1>1, Invariant, PTL

\* No request, parameter, timer or restart gives the driver a target other than
\* zero once the controller knows of the emergency stop and the driver has
\* received what was sent (publish_command, emergency_stop_callback, set_target).
THEOREM StopHeeded == Spec => []StopIsHeeded
<1>1. IInv => StopIsHeeded
  BY DEF IInv, Heeded, Newest, StopIsHeeded, Steady
<1> QED BY <1>1, Invariant, PTL

\* The belt never turns faster than max_rpm: the startup current is ended, or
\* taken over by the ramp, in time whatever the free speed, the threshold and
\* the slew rate, also by a driver that was restarted while the motor turned
\* (publish_motor_command, set_target, can_callback).
THEOREM NeverOverspeeds == Spec => []NoOverspeed
<1>1. Init => IInv /\ Bounded
  BY InitKeeps, InitBounds
<1>2. IInv /\ Bounded /\ [Next]_vars => IInv' /\ Bounded'
  BY NextKeeps, NextBounds
<1>3. Bounded => NoOverspeed
  BY DEF Bounded, NoOverspeed
<1> QED BY <1>1, <1>2, <1>3, PTL DEF Spec
=============================================================================
