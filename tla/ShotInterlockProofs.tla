------------------------ MODULE ShotInterlockProofs ------------------------
(***************************************************************************)
(* The interlock of the shot cycle, for every value of the constants: with *)
(* values that arrive before the receiver's next step, the arm feeds only  *)
(* past a spring that is lent and does not shoot, and without manual       *)
(* positions the spring never shoots where the arm is led.                 *)
(* SpringRefinementProofs shows that the spring controller is such a       *)
(* spring.                                                                 *)
(***************************************************************************)
EXTENDS ShotInterlock, DribbleControllerProofs

USE DEF Modes, Places, Phases, Operations

Feeding(s) == s.active /\ s.phase \in {"FEEDING", "RETURNING"}

\* The spring's side: what SpringClearance keeps, and that nothing was received
\* before anything was announced.
SpringInv ==
  /\ motion = "shooting" => ~lent
  /\ announced = "BELT_CLEARANCE" => lent
  /\ announced \in {"none", "BELT_CLEARANCE"} \cup RestAnnouncements
                     \cup ShotAnnouncements
  /\ announced = "none" => input.op = "IDLE"

JointInv == IInv /\ SpringInv /\ (Feeding(shot) => lent)

\* A period that begins or goes on feeding goes on, or has seen BELT_CLEARANCE.
LEMMA ControlFeeds ==
  ASSUME NEW in \in Inputs, NEW s \in Shots, NEW a, NEW rpm,
         Control(in, s, a, rpm), Feeding(shot')
  PROVE  Feeding(s) \/ in.op = "BELT_CLEARANCE"
<1>1. CASE ArmDown(in, s, a, rpm) \/ Held(in, s, a, rpm)
  BY <1>1 DEF ArmDown, Held
<1>2. CASE Moves(in, s, a, rpm)
  BY <1>2 DEF Moves, Feeding, Shots
<1>3. CASE Cycles(in, s, a, rpm)
  <2>1. s.active
    BY <1>3 DEF Cycles
  <2>2. CASE s.phase \in {"FEEDING", "RETURNING"}
    BY <2>1, <2>2 DEF Feeding
  <2>3. CASE s.phase = "BELT_SPINUP"
    <3>1. \E spins : Spinup(in, s, a, clearance, spins)
      BY <1>3, <2>3 DEF Cycles, Feed, Return
    <3> QED BY <2>3, <3>1 DEF Spinup, ShotEnded, Feeding, Shots
  <2> QED BY <2>2, <2>3 DEF Shots
<1>4. CASE StartsAfterWait(in, s, a, rpm)
  <2> DEFINE started == ShotStarted(in, [s EXCEPT !.pre = "IDLE"])
  <2>1. Spinup(in, started, ArmAtStart(a), TRUE, BeltAtStart(in))
    BY <1>4 DEF StartsAfterWait
  <2>2. started \in Shots
    BY DEF ShotStarted, Shots, Inputs
  <2> HIDE DEF started
  <2> QED BY <2>1, <2>2 DEF Spinup, ShotEnded, Feeding, Shots
<1> QED BY <1>1, <1>2, <1>3, <1>4 DEF Control

\* The same for every step of the dribble controller; the others change no
\* phase, or end the cycle.
LEMMA DribbleFeeds ==
  ASSUME IInv, Feeding(shot'),
         \/ Tick \/ PositionMode \/ DribbleEnabled \/ ShotCycleRequest
         \/ EmergencyStopOn \/ EmergencyStopOff \/ EduliteState \/ VescState
  PROVE  Feeding(shot) \/ input.op = "BELT_CLEARANCE"
<1>0. input \in Inputs /\ shot \in Shots
  BY DEF IInv, TypeOK
<1>1. CASE Tick
  <2> DEFINE s == [shot EXCEPT !.wait = Later(@)]
             a == [arm EXCEPT !.age = Later(@)]
  <2>1. s \in Shots /\ s.active = shot.active /\ s.phase = shot.phase
    BY <1>0, LaterType DEF Shots
  <2>2. Control(input, s, a, roller)
    BY <1>1 DEF Tick
  <2> HIDE DEF s, a
  <2> QED BY <1>0, <2>1, <2>2, ControlFeeds DEF Feeding
<1>2. CASE EmergencyStopOn \/ EmergencyStopOff
  <2>1. \A b \in BOOLEAN : /\ [input EXCEPT !.stop = b] \in Inputs
                           /\ [input EXCEPT !.stop = b].op = input.op
    BY <1>0 DEF Inputs
  <2>2. \E b \in BOOLEAN : \E a, rpm : Control([input EXCEPT !.stop = b], shot, a, rpm)
    BY <1>2 DEF EmergencyStopOn, EmergencyStopOff
  <2> QED BY <1>0, <2>1, <2>2, ControlFeeds
<1>3. CASE PositionMode
  <2>1. ~shot'.active
    BY <1>0, <1>3 DEF PositionMode, PositionCommand, Shots
  <2> QED BY <2>1 DEF Feeding
<1>4. CASE ShotCycleRequest
  <2>1. ~shot'.active \/ shot'.phase = "BELT_SPINUP"
    BY <1>0, <1>4 DEF ShotCycleRequest, ShotStarted, Shots
  <2> QED BY <2>1 DEF Feeding
<1>5. CASE DribbleEnabled \/ EduliteState \/ VescState
  BY <1>5 DEF DribbleEnabled, EduliteState, VescState
<1> QED BY <1>1, <1>2, <1>3, <1>4, <1>5

LEMMA OpKept ==
  ASSUME IInv,
         \/ Tick \/ PositionMode \/ DribbleEnabled \/ ShotCycleRequest
         \/ EmergencyStopOn \/ EmergencyStopOff \/ EduliteState \/ VescState
  PROVE  input'.op = input.op
<1>0. input \in Inputs
  BY DEF IInv, TypeOK
<1>1. CASE Tick \/ PositionMode \/ ShotCycleRequest
  BY <1>1 DEF Tick, Control, PositionMode, PositionCommand, ShotCycleRequest
<1>2. CASE EmergencyStopOn \/ EmergencyStopOff
  BY <1>0, <1>2 DEF EmergencyStopOn, EmergencyStopOff, Control, Inputs
<1>3. CASE DribbleEnabled \/ VescState
  BY <1>0, <1>3 DEF DribbleEnabled, VescState, Inputs
<1>4. CASE EduliteState
  BY <1>0, <1>4 DEF EduliteState, Inputs
<1> QED BY <1>1, <1>2, <1>3, <1>4

-----------------------------------------------------------------------------
(***************************************************************************)
(* The steps of the composition.                                           *)
(***************************************************************************)
LEMMA DribbleStepInv ==
  ASSUME Prompt = TRUE, JointInv, DribbleStep
  PROVE  JointInv'
<1>1. IInv'
  BY StepInv DEF JointInv, DribbleStep, Next, Callbacks
<1>2. SpringInv'
  BY OpKept DEF JointInv, SpringInv, DribbleStep, springVars
<1>3. input.op = "BELT_CLEARANCE" => lent
  BY DEF JointInv, SpringInv, DribbleStep, OperationDelivered
<1>4. Feeding(shot') => lent'
  BY <1>3, DribbleFeeds DEF JointInv, DribbleStep, springVars
<1> QED BY <1>1, <1>2, <1>4 DEF JointInv, Feeding

LEMMA SpringStepInv ==
  ASSUME Prompt = TRUE, JointInv, SpringStep
  PROVE  JointInv'
<1>1. IInv' /\ input' = input /\ shot' = shot
  BY StepInv DEF JointInv, SpringStep, vars
<1>2. asked = shot.active
  BY DEF JointInv, IInv, ClearanceFollowsCycle, SpringStep, RequestDelivered
<1>3. CASE Spring!Period
  <2>1. /\ lent' \in {lent, asked} /\ (motion' = "shooting" => ~lent')
        /\ announced' \in Spring!Announcements(motion', lent')
    BY <1>3 DEF Spring!Period
  <2>2. /\ announced' \in {"BELT_CLEARANCE"} \cup RestAnnouncements
                            \cup ShotAnnouncements
        /\ announced' = "BELT_CLEARANCE" => lent'
    BY <2>1, InterlockAssumption DEF Spring!Announcements
  <2>3. announced' # "none"
    BY <2>2, InterlockAssumption
  <2>4. SpringInv'
    BY <2>1, <2>2, <2>3 DEF SpringInv
  <2>5. Feeding(shot) => lent'
    BY <1>2, <2>1 DEF JointInv, Feeding
  <2> QED BY <1>1, <2>4, <2>5 DEF JointInv, Feeding
<1>4. CASE Spring!Displaced
  BY <1>1, <1>4 DEF Spring!Displaced, JointInv, SpringInv, Feeding
<1> QED BY <1>3, <1>4 DEF SpringStep

LEMMA DeliveryInv ==
  ASSUME JointInv, DeliverRequest \/ DeliverOperation
  PROVE  JointInv'
<1>1. CASE DeliverRequest
  <2>1. IInv'
    BY <1>1, StepInv DEF JointInv, DeliverRequest
  <2> QED BY <1>1, <2>1
          DEF DeliverRequest, Spring!Ask, JointInv, SpringInv, Feeding, vars
<1>2. CASE DeliverOperation
  <2>1. announced # "none" /\ announced \in Operations
    BY <1>2, InterlockAssumption
    DEF DeliverOperation, OperationDelivered, JointInv, SpringInv
  <2>2. IInv'
    BY <1>2, <2>1, SpringStateInv DEF DeliverOperation, JointInv
  <2> QED BY <1>2, <2>1, <2>2
          DEF DeliverOperation, SpringState, springVars, JointInv, SpringInv, Feeding
<1> QED BY <1>1, <1>2

LEMMA JointStep ==
  ASSUME Prompt = TRUE, JointInv, [InterlockNext]_allVars
  PROVE  JointInv'
<1>1. CASE UNCHANGED allVars
  <2>1. IInv'
    BY <1>1, StepInv DEF JointInv, allVars
  <2> QED BY <1>1, <2>1
          DEF allVars, vars, springVars, JointInv, SpringInv, Feeding
<1> QED BY <1>1, DribbleStepInv, SpringStepInv, DeliveryInv DEF InterlockNext

LEMMA JointInit == InterlockInit => JointInv
<1> SUFFICES ASSUME InterlockInit PROVE JointInv
  OBVIOUS
<1>1. IInv
  BY InitInv DEF InterlockInit
<1>2. SpringInv
  BY DEF InterlockInit, Init, Spring!Init, SpringInv
<1>3. ~Feeding(shot)
  BY DEF InterlockInit, Init, Feeding
<1> QED BY <1>1, <1>2, <1>3 DEF JointInv

\* From the moment the arm starts to feed until it is back, the spring is lent
\* and does not shoot, if both topics deliver promptly: through manual aborts,
\* emergency stops, reconnections of the arm and parameter changes of the spring.
THEOREM ArmFeedsPastLentSpring ==
  ASSUME Prompt = TRUE
  PROVE  InterlockSpec => []FeedsPastLentSpring
<1>1. JointInv /\ [InterlockNext]_allVars => JointInv'
  BY JointStep
<1>2. JointInv => FeedsPastLentSpring
  BY DEF JointInv, SpringInv, Feeding, FeedsPastLentSpring
<1> QED BY <1>1, <1>2, JointInit, PTL DEF InterlockSpec

-----------------------------------------------------------------------------
(***************************************************************************)
(* No shot into the arm.  Only a cycle that feeds takes the command of the *)
(* arm to FEED, if nobody moves the arm by hand and it is reported near    *)
(* FEED during such a cycle only.                                          *)
(***************************************************************************)
ReportedWhereLed == input.pos = "FEED" => Feeding(shot)

\* Outside the feeding neither the command of the arm, nor what a trajectory
\* or the end of an emergency stop starts from, touches FEED.
OutOfFeed(in, s, a) ==
  /\ s.saved = "DRIBBLE" /\ a.mode \in {"DRIBBLE", "FEED"}
  /\ s.active => ~a.moving
  /\ ~Feeding(s) => /\ "FEED" \notin a.cmd
                    /\ a.moving => "FEED" \notin a.from
                    /\ in.stop => "FEED" \notin a.hold

ClearInv == JointInv /\ OutOfFeed(input, shot, arm)

LEMMA SpinupClears ==
  ASSUME NEW in, NEW s \in Shots, NEW a \in Arms, NEW asked1, NEW spins,
         ~in.stop, s.active, OutOfFeed(in, s, a), a.mode = "DRIBBLE",
         Spinup(in, s, a, asked1, spins)
  PROVE  OutOfFeed(in, shot', arm')
<1>0. s.saved = "DRIBBLE" /\ ~a.moving /\ s.phase = "BELT_SPINUP"
  BY DEF OutOfFeed, Spinup
<1>1. CASE /\ shot' = ShotEnded(s)
           /\ arm' = [ArmAtEnd(s, a, roller') EXCEPT !.cmd = {a.mode}]
  <2>1. /\ shot'.active = FALSE /\ shot'.saved = "DRIBBLE"
    BY <1>0, <1>1 DEF ShotEnded, Shots
  <2>2. ArmAtEnd(s, a, roller') = [a EXCEPT !.mode = "DRIBBLE"]
    BY <1>0 DEF ArmAtEnd
  <2>3. arm'.mode = "DRIBBLE" /\ arm'.moving = FALSE /\ arm'.cmd = {"DRIBBLE"}
    BY <1>0, <1>1, <2>2 DEF Arms
  <2> QED BY <2>1, <2>3 DEF OutOfFeed
<1>2. CASE /\ shot' = [s EXCEPT !.phase = "FEEDING", !.rollerOff = FALSE]
           /\ arm' = [a EXCEPT !.age = 0, !.from = a.cmd, !.mode = "FEED",
                               !.cmd = {a.mode}]
  <2>1. Feeding(shot') /\ shot'.saved = "DRIBBLE"
    BY <1>0, <1>2 DEF Shots, Feeding
  <2>2. arm'.mode = "FEED" /\ arm'.moving = FALSE
    BY <1>0, <1>2 DEF Arms
  <2> QED BY <2>1, <2>2 DEF OutOfFeed
<1>3. CASE shot' = s /\ arm' = [a EXCEPT !.cmd = {a.mode}]
  <2>1. arm'.mode = "DRIBBLE" /\ arm'.moving = FALSE /\ arm'.cmd = {"DRIBBLE"}
    BY <1>0, <1>3 DEF Arms
  <2> QED BY <1>0, <1>3, <2>1 DEF OutOfFeed
<1> QED BY <1>1, <1>2, <1>3 DEF Spinup

LEMMA FeedClears ==
  ASSUME NEW in, NEW s \in Shots, NEW a \in Arms, NEW spins, s.active,
         OutOfFeed(in, s, a), Feed(s, a, spins)
  PROVE  OutOfFeed(in, shot', arm')
<1>0. s.saved = "DRIBBLE" /\ ~a.moving /\ s.phase = "FEEDING"
  BY DEF OutOfFeed, Feed
<1>1. PICK ends \in BOOLEAN, stops \in BOOLEAN :
        IF ends
        THEN /\ shot' = [s EXCEPT !.phase = "RETURNING", !.rollerOff = FALSE]
             /\ arm' = [a EXCEPT !.mode = "FEED", !.age = 0,
                                 !.from = {"FEED"}, !.cmd = {"FEED"}]
        ELSE /\ shot' = [s EXCEPT !.rollerOff = @ \/ stops]
             /\ arm' = [a EXCEPT !.mode = "FEED", !.cmd = a.from \cup {"FEED"}]
  BY DEF Feed
<1>2. arm'.mode = "FEED" /\ arm'.moving = FALSE
  BY <1>0, <1>1 DEF Arms
<1>3. Feeding(shot') /\ shot'.saved = "DRIBBLE"
  BY <1>0, <1>1 DEF Shots, Feeding
<1> QED BY <1>2, <1>3 DEF OutOfFeed

LEMMA ReturnClears ==
  ASSUME NEW in, NEW s \in Shots, NEW a \in Arms, NEW spins, s.active,
         OutOfFeed(in, s, a), ~in.stop, Return(s, a, spins)
  PROVE  OutOfFeed(in, shot', arm')
<1>0. s.saved = "DRIBBLE" /\ ~a.moving /\ s.phase = "RETURNING"
  BY DEF OutOfFeed, Return
<1>1. CASE /\ shot' = ShotEnded(s)
           /\ arm' = [ArmAtEnd(s, a, roller') EXCEPT !.cmd = {"DRIBBLE"}]
  <2>1. shot'.active = FALSE /\ shot'.saved = "DRIBBLE"
    BY <1>0, <1>1 DEF ShotEnded, Shots
  <2>2. ArmAtEnd(s, a, roller') = [a EXCEPT !.mode = "DRIBBLE"]
    BY <1>0 DEF ArmAtEnd
  <2>3. arm'.mode = "DRIBBLE" /\ arm'.moving = FALSE /\ arm'.cmd = {"DRIBBLE"}
    BY <1>0, <1>1, <2>2 DEF Arms
  <2> QED BY <2>1, <2>3 DEF OutOfFeed
<1>2. CASE /\ shot' = s
           /\ arm' = [a EXCEPT !.mode = "DRIBBLE",
                               !.cmd = a.from \cup {"DRIBBLE"}]
  <2>1. arm'.mode = "DRIBBLE" /\ arm'.moving = FALSE
    BY <1>0, <1>2 DEF Arms
  <2>2. Feeding(s)
    BY <1>0 DEF Feeding
  <2> QED BY <1>0, <1>2, <2>1, <2>2 DEF OutOfFeed
<1> QED BY <1>1, <1>2 DEF Return

LEMMA MovesClears ==
  ASSUME NEW in, NEW s \in Shots, NEW a \in Arms, NEW rpm,
         OutOfFeed(in, s, a), Together(s, a), Moves(in, s, a, rpm)
  PROVE  OutOfFeed(in, shot', arm')
<1> DEFINE place == TargetPlace(in, s, a)
<1>0. ~s.active /\ ~in.stop /\ a.mode = "DRIBBLE"
  BY DEF Moves, Running, OutOfFeed, Together
<1>1. place # "FEED"
  BY <1>0 DEF TargetPlace
<1>2. PICK ends \in BOOLEAN : arm' = Travelled(s, a, place, ends)
  BY DEF Moves
<1> HIDE DEF place
<1>3. /\ "FEED" \notin a.cmd /\ (a.moving => "FEED" \notin a.from)
      /\ s.saved = "DRIBBLE"
  BY <1>0 DEF OutOfFeed, Feeding
<1>4. /\ arm'.mode = "DRIBBLE" /\ "FEED" \notin arm'.cmd
      /\ arm'.moving => "FEED" \notin arm'.from
  <2>1. CASE ~a.moving /\ arm' = [a EXCEPT !.cmd = {place}]
    BY <1>0, <1>1, <2>1 DEF Arms
  <2>2. CASE arm' = [a EXCEPT !.cmd = {place}, !.moving = FALSE]
    BY <1>0, <1>1, <2>2 DEF Arms
  <2>3. CASE a.moving /\ arm' = [a EXCEPT !.cmd = a.from \cup {place}]
    BY <1>0, <1>1, <1>3, <2>3 DEF Arms
  <2> QED BY <1>0, <1>2, <2>1, <2>2, <2>3 DEF Travelled
<1>5. shot'.active = FALSE /\ shot'.saved = "DRIBBLE"
  BY <1>0, <1>3 DEF Moves, Shots
<1> QED BY <1>0, <1>4, <1>5 DEF OutOfFeed

LEMMA ControlClears ==
  ASSUME NEW in \in Inputs, NEW s \in Shots, NEW a \in Arms, NEW rpm,
         OutOfFeed(in, s, a), Together(s, a), Control(in, s, a, rpm)
  PROVE  OutOfFeed(in, shot', arm')
<1>1. CASE ArmDown(in, s, a, rpm)
  BY <1>1 DEF ArmDown
<1>2. CASE Held(in, s, a, rpm)
  <2>1. shot' = s /\ in.stop /\ arm' = [a EXCEPT !.cmd = a.hold]
    BY <1>2 DEF Held
  <2>2. /\ arm'.mode = a.mode /\ arm'.moving = a.moving /\ arm'.from = a.from
        /\ arm'.cmd = a.hold /\ arm'.hold = a.hold
    BY <2>1 DEF Arms
  <2> QED BY <2>1, <2>2 DEF OutOfFeed
<1>3. CASE Moves(in, s, a, rpm)
  BY <1>3, MovesClears
<1>4. CASE Cycles(in, s, a, rpm)
  <2>1. ~in.stop /\ s.active
    BY <1>4 DEF Cycles, Running
  <2>2. CASE \E spins : Spinup(in, s, a, clearance, spins)
    <3>1. a.mode = "DRIBBLE"
      BY <2>1, <2>2 DEF Spinup, Together
    <3> QED BY <2>1, <2>2, <3>1, SpinupClears
  <2> QED BY <1>4, <2>1, <2>2, FeedClears, ReturnClears DEF Cycles
<1>5. CASE StartsAfterWait(in, s, a, rpm)
  <2> DEFINE started == ShotStarted(in, [s EXCEPT !.pre = "IDLE"])
             b == ArmAtStart(a)
  <2>1. ~in.stop /\ Spinup(in, started, b, TRUE, BeltAtStart(in))
    BY <1>5 DEF StartsAfterWait, Running
  <2>2. /\ started \in Shots /\ started.active /\ started.saved = s.saved
        /\ ~Feeding(started)
    BY DEF ShotStarted, Shots, Inputs, Feeding
  <2>3. /\ b \in Arms /\ b.mode = "DRIBBLE" /\ ~b.moving /\ b.cmd = a.cmd
    BY DEF ArmAtStart, Arms
  <2>4. ~s.active
    BY <1>5 DEF StartsAfterWait
  <2> HIDE DEF started, b
  <2>5. OutOfFeed(in, started, b)
    BY <2>1, <2>2, <2>3, <2>4 DEF OutOfFeed, Feeding
  <2> QED BY <2>1, <2>2, <2>3, <2>5, SpinupClears
<1> QED BY <1>1, <1>2, <1>3, <1>4, <1>5 DEF Control

\* An arm whose control is resumed starts over from where it is.
LEMMA ResumeAt ==
  ASSUME NEW s \in Shots, NEW a \in Arms, NEW at \in SUBSET Places, NEW rpm \in Int
  PROVE  LET b == Resume(s, a, at, rpm) IN
         /\ b.from = at /\ b.cmd = at
         /\ s.active => b.moving = a.moving
BY DEF Resume, Arms

\* Both edges of the emergency stop and the timer.
LEMMA PeriodClears ==
  ASSUME IInv, OutOfFeed(input, shot, arm), ReportedWhereLed,
         Tick \/ EmergencyStopOn \/ EmergencyStopOff
  PROVE  OutOfFeed(input', shot', arm')
<1>0. /\ input \in Inputs /\ shot \in Shots /\ arm \in Arms
      /\ Together(shot, arm) /\ input.pos \in Places
      /\ arm.cmd \in SUBSET Places /\ arm.hold \in SUBSET Places
  BY DEF IInv, TypeOK, Inputs, Arms
<1>1. CASE Tick
  <2> DEFINE s == [shot EXCEPT !.wait = Later(@)]
             a == [arm EXCEPT !.age = Later(@)]
  <2>1. /\ s \in Shots /\ s.active = shot.active /\ s.pre = shot.pre
        /\ s.phase = shot.phase /\ s.saved = shot.saved
    BY <1>0, LaterType DEF Shots
  <2>2. /\ a \in Arms /\ a.mode = arm.mode /\ a.moving = arm.moving
        /\ a.cmd = arm.cmd /\ a.from = arm.from /\ a.hold = arm.hold
    BY <1>0, LaterType DEF Arms
  <2>3. Control(input, s, a, roller) /\ input' = input
    BY <1>1 DEF Tick, Control
  <2> HIDE DEF s, a
  <2>4. Together(s, a) /\ OutOfFeed(input, s, a)
    BY <1>0, <2>1, <2>2 DEF Together, OutOfFeed, Feeding
  <2> QED BY <1>0, <2>1, <2>2, <2>3, <2>4, ControlClears
<1>2. CASE EmergencyStopOn
  <2> DEFINE hold == IF input.ready THEN {input.pos} ELSE arm.cmd
             in == [input EXCEPT !.stop = TRUE]
             a == [arm EXCEPT !.hold = hold, !.cmd = hold]
  <2>1. /\ hold \in SUBSET Places
        /\ ~Feeding(shot) => "FEED" \notin hold
    BY <1>0 DEF OutOfFeed, ReportedWhereLed
  <2>2. Control(in, shot, a, 0) /\ input' = in
    BY <1>2 DEF EmergencyStopOn, Control
  <2> HIDE DEF hold
  <2>3. in \in Inputs
    BY <1>0 DEF Inputs
  <2>4. /\ a \in Arms /\ a.mode = arm.mode /\ a.moving = arm.moving
        /\ a.from = arm.from /\ a.cmd = hold /\ a.hold = hold
    BY <1>0, <2>1 DEF Arms
  <2> HIDE DEF in, a
  <2>5. Together(shot, a) /\ OutOfFeed(in, shot, a)
    BY <1>0, <2>1, <2>4 DEF Together, OutOfFeed
  <2> QED BY <1>0, <2>2, <2>3, <2>4, <2>5, ControlClears
<1>3. CASE EmergencyStopOff
  <2> DEFINE at == IF input.ready THEN {input.pos} ELSE arm.hold
             in == [input EXCEPT !.stop = FALSE]
             a == Resume(shot, arm, at, 0)
  <2>0. input.stop
    BY <1>3 DEF EmergencyStopOff
  <2>1. /\ at \in SUBSET Places
        /\ ~Feeding(shot) => "FEED" \notin at
    BY <1>0, <2>0 DEF OutOfFeed, ReportedWhereLed
  <2>2. Control(in, shot, a, roller) /\ input' = in
    BY <1>3 DEF EmergencyStopOff, Control
  <2> HIDE DEF at
  <2>3. in \in Inputs /\ ~in.stop
    BY <1>0 DEF Inputs
  <2>4. /\ a \in Arms /\ a.mode = arm.mode
        /\ shot.active => a.moving = arm.moving
        /\ a.from = at /\ a.cmd = at
    BY <1>0, <2>1, ResumeType, ResumeAt
  <2> HIDE DEF in, a
  <2>5. Together(shot, a) /\ OutOfFeed(in, shot, a)
    BY <1>0, <2>1, <2>3, <2>4 DEF Together, OutOfFeed
  <2> QED BY <1>0, <2>2, <2>3, <2>4, <2>5, ControlClears
<1> QED BY <1>1, <1>2, <1>3

\* Nobody moves the arm by hand, so a shot starts from DRIBBLE, at once.
LEMMA ShotCycleRequestClears ==
  ASSUME IInv, OutOfFeed(input, shot, arm), ShotCycleRequest
  PROVE  OutOfFeed(input', shot', arm')
<1> DEFINE saving == [shot EXCEPT !.saved = arm.mode]
<1>1. ~shot.active /\ ~input.stop /\ input' = input /\ arm.mode = "DRIBBLE"
  BY DEF ShotCycleRequest, OutOfFeed, IInv, Together
<1>2. shot' = ShotStarted(input, saving) /\ arm' = ArmAtStart(arm)
  BY <1>1 DEF ShotCycleRequest
<1>3. saving \in Shots /\ saving.saved = "DRIBBLE"
  BY <1>1 DEF IInv, TypeOK, Shots
<1> HIDE DEF saving
<1>4. shot'.saved = "DRIBBLE" /\ ~Feeding(shot')
  BY <1>2, <1>3 DEF ShotStarted, Shots, Feeding
<1>5. /\ arm'.mode = "DRIBBLE" /\ arm'.moving = FALSE /\ arm'.cmd = arm.cmd
      /\ arm'.hold = arm.hold
  BY <1>2 DEF ArmAtStart, IInv, TypeOK, Arms
<1> QED BY <1>1, <1>4, <1>5 DEF OutOfFeed, Feeding

LEMMA EduliteStateClears ==
  ASSUME IInv, OutOfFeed(input, shot, arm), ReportedWhereLed',
         EduliteState
  PROVE  OutOfFeed(input', shot', arm')
<1>0. /\ input \in Inputs /\ shot \in Shots /\ arm \in Arms /\ shot' = shot
      /\ roller \in Int
  BY DEF IInv, TypeOK, EduliteState
<1>1. input'.stop = input.stop
  BY <1>0 DEF EduliteState, Inputs
<1>2. CASE arm' = arm
  BY <1>0, <1>1, <1>2 DEF OutOfFeed
<1>3. ASSUME NEW pos \in ArmPositions,
             input' = [input EXCEPT !.ready = TRUE, !.pos = pos],
             LET held == [arm EXCEPT !.cmd = {pos}, !.hold = {pos}] IN
             arm' = IF input.stop THEN held
                    ELSE Resume(shot, held, {pos}, roller)
      PROVE  OutOfFeed(input', shot', arm')
  <2> DEFINE held == [arm EXCEPT !.cmd = {pos}, !.hold = {pos}]
  <2>1. pos \in Places /\ {pos} \in SUBSET Places
    BY DribbleAssumption
  <2>2. ~Feeding(shot) => pos # "FEED"
    BY <1>0, <1>3 DEF Inputs, ReportedWhereLed, Feeding
  <2>3. /\ held \in Arms /\ held.mode = arm.mode /\ held.moving = arm.moving
        /\ held.from = arm.from /\ held.cmd = {pos} /\ held.hold = {pos}
    BY <1>0, <2>1 DEF Arms
  <2> HIDE DEF held
  <2>4. CASE input.stop /\ arm' = held
    BY <1>0, <1>1, <2>2, <2>3, <2>4 DEF OutOfFeed
  <2>5. CASE ~input.stop /\ arm' = Resume(shot, held, {pos}, roller)
    <3>1. /\ arm'.mode = arm.mode /\ (shot.active => arm'.moving = arm.moving)
          /\ arm'.cmd = {pos} /\ arm'.from = {pos}
      BY <1>0, <2>1, <2>3, <2>5, ResumeType, ResumeAt
    <3> QED BY <1>0, <1>1, <2>2, <2>5, <3>1 DEF OutOfFeed
  <2>6. arm' = IF input.stop THEN held ELSE Resume(shot, held, {pos}, roller)
    BY <1>3 DEF held
  <2> QED BY <2>4, <2>5, <2>6
<1> QED BY <1>2, <1>3 DEF EduliteState

LEMMA SpringStateClears ==
  ASSUME IInv, OutOfFeed(input, shot, arm), NEW op, SpringState(op)
  PROVE  OutOfFeed(input', shot', arm')
<1>0. /\ shot' = shot /\ input' = [input EXCEPT !.op = op]
      /\ \/ arm' = arm
         \/ ~shot.active /\ arm' = StartMove(arm, roller)
  <2>1. CASE shot.active
    BY <2>1 DEF SpringState
  <2>2. CASE ~shot.active
    BY <2>2 DEF SpringState
  <2> QED BY <2>1, <2>2
<1>1. input'.stop = input.stop
  BY <1>0 DEF IInv, TypeOK, Inputs
<1>2. CASE arm' = arm
  BY <1>0, <1>1, <1>2 DEF OutOfFeed
<1>3. CASE ~shot.active /\ arm' = StartMove(arm, roller)
  <2>1. /\ arm'.mode = arm.mode /\ arm'.from = arm.cmd /\ arm'.cmd = arm.cmd
        /\ arm'.hold = arm.hold
    BY <1>3 DEF StartMove, IInv, TypeOK, Arms
  <2> QED BY <1>0, <1>1, <1>3, <2>1 DEF OutOfFeed, Feeding
<1> QED BY <1>0, <1>2, <1>3

LEMMA ClearStep ==
  ASSUME CommandedModes \subseteq {"FEED"}, Prompt = TRUE, ClearInv, [InterlockNext]_allVars,
         ReportedWhereLed, ReportedWhereLed'
  PROVE  ClearInv'
<1>1. JointInv'
  BY JointStep DEF ClearInv
<1>2. OutOfFeed(input', shot', arm')
  <2>0. /\ IInv /\ OutOfFeed(input, shot, arm) /\ input \in Inputs
    BY DEF ClearInv, JointInv, IInv, TypeOK
  <2>1. CASE Tick \/ EmergencyStopOn \/ EmergencyStopOff
    BY <2>0, <2>1, PeriodClears
  <2>2. CASE ShotCycleRequest
    BY <2>0, <2>2, ShotCycleRequestClears
  <2>3. CASE EduliteState
    <3>1. shot' = shot
      BY <2>3 DEF EduliteState
    <3> QED BY <2>0, <2>3, <3>1, EduliteStateClears
  <2>4. CASE DribbleEnabled \/ VescState
    <3>1. input'.stop = input.stop
      BY <2>0, <2>4 DEF DribbleEnabled, VescState, Inputs
    <3> QED BY <2>0, <2>4, <3>1 DEF DribbleEnabled, VescState, OutOfFeed
  <2>5. CASE DeliverOperation
    BY <2>0, <2>5, SpringStateClears DEF DeliverOperation
  <2>6. CASE DeliverRequest \/ SpringStep \/ UNCHANGED allVars
    BY <2>0, <2>6 DEF DeliverRequest, SpringStep, allVars, vars
  <2>7. ~PositionMode
    BY DEF PositionMode, PositionCommand, Accepted
  <2> QED BY <2>1, <2>2, <2>3, <2>4, <2>5, <2>6, <2>7
          DEF InterlockNext, DribbleStep
<1> QED BY <1>1, <1>2 DEF ClearInv

LEMMA ClearInit == InterlockInit => ClearInv
<1>1. Init => OutOfFeed(input, shot, arm)
  BY DEF Init, OutOfFeed, Feeding
<1> QED BY <1>1, JointInit DEF InterlockInit, ClearInv

\* The spring never shoots while the command of the arm touches FEED, if both
\* topics deliver promptly, no position but FEED is asked for by hand, and the arm is
\* reported near FEED only during a cycle that feeds: through emergency stops,
\* reconnections, timeouts of the clearance and displacements of the spring.
THEOREM NoShotWhereArmIsLed ==
  ASSUME CommandedModes \subseteq {"FEED"}, Prompt = TRUE
  PROVE  InterlockSpec /\ []ReportedWhereLed => []NoShotIntoArm
<1>1. ClearInv => NoShotIntoArm
  BY DEF ClearInv, OutOfFeed, JointInv, SpringInv, NoShotIntoArm
<1>2. ClearInv /\ ReportedWhereLed /\ ReportedWhereLed' /\ [InterlockNext]_allVars
        => ClearInv'
  BY ClearStep
<1> QED BY <1>1, <1>2, ClearInit, PTL DEF InterlockSpec

\* In particular if the arm is never reported near FEED.
THEOREM NoShot ==
  ASSUME CommandedModes \subseteq {"FEED"}, Prompt = TRUE, "FEED" \notin ArmPositions
  PROVE  InterlockSpec => []NoShotIntoArm
<1>1. InterlockInit => input.pos # "FEED" /\ input \in Inputs
  BY JointInit DEF InterlockInit, Init, JointInv, IInv, TypeOK
<1>2. JointInv /\ input.pos # "FEED" /\ [InterlockNext]_allVars
        => JointInv' /\ (input.pos # "FEED")'
  <2> SUFFICES ASSUME JointInv, input.pos # "FEED", [InterlockNext]_allVars
               PROVE  input'.pos # "FEED"
    BY JointStep
  <2>0. input \in Inputs
    BY DEF JointInv, IInv, TypeOK
  <2>1. CASE Tick \/ ShotCycleRequest \/ PositionMode
    BY <2>1 DEF Tick, Control, ShotCycleRequest, PositionMode, PositionCommand
  <2>2. CASE EmergencyStopOn \/ EmergencyStopOff \/ DribbleEnabled \/ VescState
    BY <2>0, <2>2 DEF EmergencyStopOn, EmergencyStopOff, Control,
                      DribbleEnabled, VescState, Inputs
  <2>3. CASE EduliteState
    BY <2>0, <2>3 DEF EduliteState, Inputs
  <2>4. CASE DeliverOperation
    BY <2>0, <2>4 DEF DeliverOperation, SpringState, Inputs
  <2>5. CASE DeliverRequest \/ SpringStep \/ UNCHANGED allVars
    BY <2>5 DEF DeliverRequest, SpringStep, allVars, vars
  <2> QED BY <2>1, <2>2, <2>3, <2>4, <2>5 DEF InterlockNext, DribbleStep
<1>3. input.pos # "FEED" => ReportedWhereLed
  BY DEF ReportedWhereLed
<1>4. InterlockSpec /\ []ReportedWhereLed => []NoShotIntoArm
  BY NoShotWhereArmIsLed
<1> QED BY <1>1, <1>2, <1>3, <1>4, JointInit, PTL DEF InterlockSpec

=============================================================================
