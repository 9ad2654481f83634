---------------------------- MODULE EduliteDriver ----------------------------
(***************************************************************************)
(* One motor of the EduLite05 driver: edulite05_protocol.cpp, the command  *)
(* timer of edulite05_node.cpp that drives it, the CAN bus and the motor.  *)
(*                                                                         *)
(* The motor has volatile registers: it forgets them, and that it was      *)
(* enabled, when it loses power.  The driver writes and reads back one     *)
(* parameter after the other; a position motor is enabled only after its   *)
(* present position was written as its reference and read back.            *)
(*                                                                         *)
(* A frame of the driver reaches the motor before anything else happens to *)
(* it, or is lost.  The motor's frames wait in a queue, in order.          *)
(* Positions are integers; a feedback frame carries a position modulo one  *)
(* turn.  Time is counted in periods of the command timer.                 *)
(***************************************************************************)
EXTENDS Integers, Sequences

CONSTANTS
  Kinds,            \* configurations of the motor that are checked
  Parameters,       \* number of initialisation parameters, RUN_MODE first
  MaxRetries,       \* MAX_INITIALIZATION_RETRIES
  ResponseTimeout, ErrorRetryPeriod, FeedbackTimeout, TargetTimeout,
  NonRunLimit,      \* non_run_feedback_restart_threshold
  TimeLimit,        \* elapsed time is not counted beyond this bound
  Turn,             \* positions per turn of the feedback frame
  Positions,        \* positions of the shaft
  Offset,           \* position_offset_rad
  Lowest, Highest,  \* the limits of a target
  Targets,          \* targets a client may ask for
  Losses,           \* whether frames are lost and requests refused
  Outages,          \* whether the motor may lose power or report a fault
  LongOutages,      \* power is back only after the driver started over
  ShaftMoves,       \* whether the shaft turns unless the driver is READY and has
                    \* handled the last report
  Prompt,           \* the motor's frames are handled within the period
  MaxInbox          \* bound on the queue of frames from the motor

ASSUME EduliteAssumption ==
  /\ Kinds \subseteq {"SERVICE", "YAML", "VELOCITY"}
  /\ {Parameters, MaxRetries, ResponseTimeout, ErrorRetryPeriod, TargetTimeout,
      FeedbackTimeout, NonRunLimit, TimeLimit, Turn, MaxInbox} \subseteq Nat
  /\ Parameters > 1 /\ Turn > 0
  /\ 0 \in Positions /\ Positions \subseteq Int /\ Targets \subseteq Int
  /\ {Offset, Lowest, Highest} \subseteq Int
  /\ {Losses, Outages, LongOutages, ShaftMoves, Prompt} \subseteq BOOLEAN

VARIABLES
  kind,    \* position motor with service or yaml_offset reference, or velocity
  driver,  \* the Protocol object of the motor
  motor,   \* the motor: power, registers, position
  inbox    \* frames of the motor the driver has not yet received

vars == <<kind, driver, motor, inbox>>

SendSteps == {"WRITE_PARAMETER", "READ_PARAMETER", "READ_STARTUP_POSITION",
  "WRITE_STARTUP_HOLD", "READ_STARTUP_HOLD", "ENABLE"}
AnswerSteps == {"WAIT_FOR_READ", "WAIT_FOR_STARTUP_POSITION",
  "WAIT_FOR_STARTUP_HOLD", "WAIT_FOR_ENABLE"}
SettleSteps == {"WAIT_AFTER_WRITE", "WAIT_AFTER_STARTUP_HOLD_WRITE"}
Steps == SendSteps \cup AnswerSteps \cup SettleSteps \cup {"READY", "ERROR"}

Drivers ==
  [step : Steps, index : Nat, retries : Nat, enabled : BOOLEAN, age : Nat,
   reference : {"NOT_REQUIRED", "UNAVAILABLE", "TEMPORARY", "ESTABLISHED"},
   known : BOOLEAN, aligning : BOOLEAN, hold : Int, count : Int, last : Int,
   offset : Int, target : SUBSET [value : Int, offset : Int], targetAge : Nat,
   connected : BOOLEAN, silence : Nat, nonRun : Nat]

Motors == [on : BOOLEAN, run : BOOLEAN, params : SUBSET (1..Parameters),
           ref : Int, pos : Int, moved : BOOLEAN, fault : BOOLEAN]

UsesPosition == kind # "VELOCITY"

Answers ==
  [type : {"FEEDBACK"}, pos : Int, run : BOOLEAN, fault : BOOLEAN]
  \cup [type : {"FAULT"}]
  \cup [type : {"PARAMETER"}, index : Nat, ok : BOOLEAN, match : BOOLEAN]
  \cup [type : {"POSITION", "HOLD"}, ok : BOOLEAN, value : Int]

TypeOK ==
  /\ kind \in Kinds /\ driver \in Drivers
  /\ motor \in Motors /\ inbox \in Seq(Answers)

Init ==
  /\ kind \in Kinds
  /\ driver = [step |-> "WRITE_PARAMETER", index |-> 0, retries |-> 0,
       enabled |-> FALSE, age |-> 0,
       reference |-> IF UsesPosition THEN "UNAVAILABLE" ELSE "NOT_REQUIRED",
       known |-> FALSE, aligning |-> FALSE, hold |-> 0, count |-> 0,
       last |-> 0, offset |-> 0, target |-> {}, targetAge |-> 0,
       connected |-> FALSE, silence |-> 0, nonRun |-> 0]
  /\ inbox = <<>>
  /\ \E pos \in IF UsesPosition THEN Positions ELSE {0} :
       motor = [on |-> TRUE, run |-> FALSE, params |-> {}, ref |-> 0,
                pos |-> pos, moved |-> FALSE, fault |-> FALSE]
-----------------------------------------------------------------------------
(***************************************************************************)
(* The initialisation, as functions of the protocol object.                *)
(***************************************************************************)
Later(t) == IF t < TimeLimit THEN t + 1 ELSE t

\* retry_initialization
Retry(d) ==
  LET e == [d EXCEPT !.retries = @ + 1] IN
  IF e.retries > MaxRetries
  THEN [e EXCEPT !.enabled = FALSE, !.step = "ERROR", !.age = 0]
  ELSE [e EXCEPT !.step =
         CASE d.step = "WAIT_FOR_ENABLE" -> "ENABLE"
           [] d.step \in {"WAIT_FOR_STARTUP_POSITION", "WAIT_FOR_STARTUP_HOLD"}
                -> "READ_STARTUP_POSITION"
           [] d.step \notin {"WAIT_FOR_ENABLE", "WAIT_FOR_STARTUP_POSITION",
                "WAIT_FOR_STARTUP_HOLD"} -> "WRITE_PARAMETER"]

\* Mutant: the table is not started over.
RestartAtIndex(d) ==
  LET e == [d EXCEPT !.enabled = FALSE, !.nonRun = 0, !.retries = 0,
              !.step = "WRITE_PARAMETER", !.target = {}]
  IN IF UsesPosition
     THEN [e EXCEPT !.reference = "UNAVAILABLE", !.count = 0, !.last = 0,
             !.known = FALSE, !.aligning = FALSE]
     ELSE e

\* Mutant: the motor is taken to be enabled still.
RestartEnabled(d) ==
  LET e == [d EXCEPT !.nonRun = 0, !.index = 0, !.retries = 0,
              !.step = "WRITE_PARAMETER", !.target = {}]
  IN IF UsesPosition
     THEN [e EXCEPT !.reference = "UNAVAILABLE", !.count = 0, !.last = 0,
             !.known = FALSE, !.aligning = FALSE]
     ELSE e

\* restart_initialization(true): the position, its reference and the target
\* are forgotten; the offset stays until the next reference.
Restart(d) ==
  LET e == [d EXCEPT !.enabled = FALSE, !.nonRun = 0, !.index = 0,
              !.retries = 0, !.step = "WRITE_PARAMETER", !.target = {}]
  IN IF UsesPosition
     THEN [e EXCEPT !.reference = "UNAVAILABLE", !.count = 0, !.last = 0,
             !.known = FALSE, !.aligning = FALSE]
     ELSE e

\* watchdog
Watched(d) ==
  IF d.step = "READY" /\ d.connected /\ d.silence > FeedbackTimeout
  THEN Restart([d EXCEPT !.connected = FALSE]) ELSE d

\* Mutant: ERROR is not left.
AdvancedStuck(d) ==
  IF d.step \in AnswerSteps /\ d.age > ResponseTimeout THEN Retry(d)
  ELSE IF d.step = "WAIT_AFTER_WRITE" /\ d.age > 0
    THEN [d EXCEPT !.step = "READ_PARAMETER"]
  ELSE IF d.step = "WAIT_AFTER_STARTUP_HOLD_WRITE" /\ d.age > 0
    THEN [d EXCEPT !.step = "READ_STARTUP_HOLD"]
  ELSE d

\* The part of create_initialization_frame that sends nothing.  A period is
\* longer than WRITE_SETTLING_TIME.
Advanced(d) ==
  IF d.step \in AnswerSteps /\ d.age > ResponseTimeout THEN Retry(d)
  ELSE IF d.step = "WAIT_AFTER_WRITE" /\ d.age > 0
    THEN [d EXCEPT !.step = "READ_PARAMETER"]
  ELSE IF d.step = "WAIT_AFTER_STARTUP_HOLD_WRITE" /\ d.age > 0
    THEN [d EXCEPT !.step = "READ_STARTUP_HOLD"]
  ELSE IF d.step = "ERROR" /\ d.age > ErrorRetryPeriod THEN Restart(d)
  ELSE d

\* The part that sends one frame and waits.
WaitOf(step) ==
  CASE step = "WRITE_PARAMETER" -> "WAIT_AFTER_WRITE"
    [] step = "READ_PARAMETER" -> "WAIT_FOR_READ"
    [] step = "READ_STARTUP_POSITION" -> "WAIT_FOR_STARTUP_POSITION"
    [] step = "WRITE_STARTUP_HOLD" -> "WAIT_AFTER_STARTUP_HOLD_WRITE"
    [] step = "READ_STARTUP_HOLD" -> "WAIT_FOR_STARTUP_HOLD"
    [] step = "ENABLE" -> "WAIT_FOR_ENABLE"

Sent(d) == IF d.step \in SendSteps
           THEN [d EXCEPT !.step = WaitOf(d.step), !.age = 0] ELSE d
-----------------------------------------------------------------------------
(***************************************************************************)
(* Frames from the motor.                                                  *)
(***************************************************************************)
\* enter_fault_state
Faulted(d) == [d EXCEPT !.enabled = FALSE, !.target = {},
                        !.step = "ERROR", !.age = 0]

Heard(d) == [d EXCEPT !.connected = TRUE, !.silence = 0]

Wrapped(pos) == pos % Turn

\* Mutant: a crossing of the turn's end is not noticed.
UnwrappedRaw(delta) == delta

\* A step of more than half a turn is the short way round.
Unwrapped(delta) ==
  IF 2 * delta > Turn THEN delta - Turn
  ELSE IF 2 * delta < -Turn THEN delta + Turn ELSE delta

\* The position is counted from the first feedback; if the multi-turn position
\* was read before it, that is where counting starts.
Counted(d, w) ==
  IF d.known
  THEN [d EXCEPT !.count = @ + Unwrapped(w - d.last), !.last = w]
  ELSE [d EXCEPT !.count = IF d.aligning THEN d.hold ELSE w,
                 !.aligning = FALSE, !.last = w, !.known = TRUE]

\* The first position is the formal reference (YAML) or a temporary one.
Referenced(d) ==
  IF d.reference # "UNAVAILABLE" THEN d
  ELSE IF kind = "YAML"
    THEN [d EXCEPT !.offset = Offset, !.reference = "ESTABLISHED"]
    ELSE [d EXCEPT !.offset = -d.count, !.reference = "TEMPORARY"]

\* Mutant: READY as soon as it runs.
ConfirmedReady(d) ==
  [d EXCEPT !.enabled = TRUE, !.retries = 0, !.step = "READY"]

\* The RUN status confirms ENABLE.
Confirmed(d) ==
  LET e == [d EXCEPT !.enabled = TRUE, !.retries = 0] IN
  [e EXCEPT !.step =
     IF d.index >= Parameters THEN "READY" ELSE "WRITE_PARAMETER"]

\* A velocity motor that stays out of RUN has been switched off and on.
Debounced(d, run) ==
  IF run THEN [d EXCEPT !.nonRun = 0]
  ELSE IF d.nonRun + 1 >= NonRunLimit THEN Restart(d)
  ELSE [d EXCEPT !.nonRun = @ + 1]

\* process_feedback (Type 2)
Feedback(f) ==
  LET d == Referenced(Counted(Heard(driver), Wrapped(f.pos))) IN
  IF f.fault THEN Faulted(d)
  ELSE IF d.step = "WAIT_FOR_ENABLE"
    THEN IF f.run THEN Confirmed(d) ELSE d
  ELSE IF d.step = "READY" /\ ~UsesPosition THEN Debounced(d, f.run)
  ELSE d

\* The multi-turn position was read: hold it, and count from it.
PositionRead(d, value) ==
  LET e == [d EXCEPT !.hold = value, !.step = "WRITE_STARTUP_HOLD"] IN
  IF ~d.known THEN [e EXCEPT !.aligning = TRUE]
  ELSE [e EXCEPT !.count = value,
          !.offset = IF kind = "SERVICE" /\ d.reference # "ESTABLISHED"
                     THEN -value ELSE @]

\* Mutant: a position motor is enabled without the hold.
VerifiedWithoutHold(d) ==
  LET n == d.index + 1 IN
  [d EXCEPT !.retries = 0, !.index = n, !.step =
     IF n >= Parameters
     THEN IF d.enabled THEN "READY" ELSE "ENABLE"
     ELSE IF d.enabled THEN "WRITE_PARAMETER" ELSE "ENABLE"]

\* One more parameter was verified.
Verified(d) ==
  LET n == d.index + 1 IN
  [d EXCEPT !.retries = 0, !.index = n, !.step =
     IF n >= Parameters
     THEN IF d.enabled THEN "READY" ELSE "ENABLE"
     ELSE IF d.enabled THEN "WRITE_PARAMETER"
     ELSE IF UsesPosition /\ d.index = 0 THEN "READ_STARTUP_POSITION"
     ELSE "ENABLE"]

\* process_parameter_response (Type 17)
Response(a) ==
  LET d == Heard(driver) IN
  CASE d.step = "WAIT_FOR_STARTUP_POSITION" ->
         IF a.type # "POSITION" THEN d
         ELSE IF a.ok THEN PositionRead(d, a.value) ELSE Retry(d)
    [] d.step = "WAIT_FOR_STARTUP_HOLD" ->
         IF a.type # "HOLD" THEN d
         ELSE IF a.ok /\ a.value = d.hold
         THEN [d EXCEPT !.retries = 0, !.step = "ENABLE"] ELSE Retry(d)
    [] d.step = "WAIT_FOR_READ" ->
         IF ~a.ok THEN Retry(d)
         ELSE IF a.type # "PARAMETER" THEN d
         ELSE IF a.index # d.index THEN d
         ELSE IF a.match THEN Verified(d) ELSE Retry(d)
    [] d.step \notin {"WAIT_FOR_STARTUP_POSITION", "WAIT_FOR_STARTUP_HOLD",
                      "WAIT_FOR_READ"} -> d

\* Protocol::receive
Receive ==
  /\ inbox # <<>>
  /\ LET f == Head(inbox) IN
     driver' = CASE f.type = "FEEDBACK" -> Feedback(f)
                 [] f.type = "FAULT" -> Faulted(Heard(driver))
                 [] f.type \notin {"FEEDBACK", "FAULT"} -> Response(f)
  /\ inbox' = Tail(inbox)
  /\ UNCHANGED <<kind, motor>>
-----------------------------------------------------------------------------
(***************************************************************************)
(* The command timer: watchdog, at most one initialisation frame if this   *)
(* motor's turn comes in this period, then the target.                     *)
(***************************************************************************)
Clamp(x) == IF x < Lowest THEN Lowest ELSE IF x > Highest THEN Highest ELSE x

\* What the motor does with an initialisation frame.
Obeys(m, step, d) ==
  CASE step = "WRITE_PARAMETER" ->
         [m EXCEPT !.params = @ \cup {d.index + 1},
                   !.ref = IF ~UsesPosition /\ d.index = 1 THEN 0 ELSE @]
    [] step = "WRITE_STARTUP_HOLD" -> [m EXCEPT !.ref = d.hold]
    [] step = "ENABLE" -> [m EXCEPT !.run = ~m.fault]
    [] step \notin {"WRITE_PARAMETER", "WRITE_STARTUP_HOLD", "ENABLE"} -> m

\* The feedback frame of a motor (Type 2).
Status(m) == [type |-> "FEEDBACK", pos |-> m.pos, run |-> m.run,
              fault |-> m.fault]

\* What it answers: the value read, or feedback to a write or ENABLE.
AnswersTo(m, step, d) ==
  LET oks == IF Losses THEN BOOLEAN ELSE {TRUE} IN
  CASE step = "READ_PARAMETER" ->
         [type : {"PARAMETER"}, index : {d.index}, ok : oks,
          match : {d.index + 1 \in m.params}]
    [] step = "READ_STARTUP_POSITION" ->
         [type : {"POSITION"}, ok : oks, value : {m.pos}]
    [] step = "READ_STARTUP_HOLD" ->
         [type : {"HOLD"}, ok : oks, value : {m.ref}]
    [] step \notin {"READ_PARAMETER", "READ_STARTUP_POSITION",
                    "READ_STARTUP_HOLD"} -> {Status(m)}

\* Mutant: a velocity does not expire.
TargetFrameUnbounded(d) ==
  IF d.step # "READY"
     \/ (UsesPosition /\ d.reference \notin {"TEMPORARY", "ESTABLISHED"})
  THEN {}
  ELSE IF UsesPosition THEN {Clamp(t.value) - d.offset : t \in d.target}
  ELSE {Clamp(t.value) : t \in d.target}

\* What create_target_frame writes to the motor, if anything.  A velocity
\* that was not refreshed in time is zero; a position is kept.
TargetFrame(d) ==
  IF d.step # "READY"
     \/ (UsesPosition /\ d.reference \notin {"TEMPORARY", "ESTABLISHED"})
  THEN {}
  ELSE IF UsesPosition THEN {Clamp(t.value) - d.offset : t \in d.target}
  ELSE {Clamp(IF d.targetAge > TargetTimeout THEN 0 ELSE t.value) :
          t \in d.target}

\* Bound: what finds the queue full is lost.
Queue(frame) ==
  inbox' = IF Len(inbox) < MaxInbox THEN Append(inbox, frame) ELSE inbox

\* Time is counted where something waits for it to pass.
Elapsed(d) ==
  [d EXCEPT !.age = IF d.step \in SendSteps \cup {"READY"} THEN @ ELSE Later(@),
            !.silence = IF d.step = "READY" THEN Later(@) ELSE @,
            !.targetAge = IF UsesPosition \/ d.target = {} THEN @ ELSE Later(@)]

Tick(turn) ==
  LET watched == Watched(Elapsed(driver))
      d == IF turn THEN Advanced(watched) ELSE watched
      sends == turn /\ d.step \in SendSteps
  IN
  /\ Prompt => inbox = <<>>
  /\ driver' = IF turn THEN Sent(d) ELSE d
  /\ \/ /\ Losses \/ ~motor.on \/ ~(sends \/ TargetFrame(d) # {})
        /\ UNCHANGED <<motor, inbox>>
     \/ /\ motor.on /\ sends
        /\ motor' = Obeys(motor, d.step, d)
        /\ \E answer \in AnswersTo(motor', d.step, d) : Queue(answer)
     \/ /\ motor.on
        /\ \E ref \in TargetFrame(d) :
             /\ motor' = [motor EXCEPT !.ref = ref]
             /\ Queue(Status(motor'))
  /\ UNCHANGED kind

Period == Tick(TRUE)
PeriodOfAnother == Tick(FALSE)
-----------------------------------------------------------------------------
(***************************************************************************)
(* Requests of the other nodes.                                            *)
(***************************************************************************)
\* Protocol::set_target.  Bound: a position target lies within Positions.
SetTarget ==
  \E t \in Targets :
    /\ IF UsesPosition THEN driver.step = "READY" ELSE TRUE
    /\ UsesPosition => Clamp(t) - driver.offset \in Positions
    /\ driver' = [driver EXCEPT !.targetAge = 0,
           !.target = {[value |-> t, offset |-> driver.offset]}]
    /\ UNCHANGED <<kind, motor, inbox>>

\* Mutant: the target survives the new coordinates.
SetCurrentPositionKeepsTarget ==
  /\ UsesPosition /\ driver.step = "READY" /\ driver.connected
  /\ driver.silence <= FeedbackTimeout
  /\ driver' = [driver EXCEPT !.offset = -driver.count,
                              !.reference = "ESTABLISHED"]
  /\ UNCHANGED <<kind, motor, inbox>>

\* The service /edulite/set_position: the shaft is now at position zero.
SetCurrentPosition ==
  /\ UsesPosition /\ driver.step = "READY" /\ driver.connected
  /\ driver.silence <= FeedbackTimeout
  /\ driver' = [driver EXCEPT !.offset = -driver.count, !.target = {},
                              !.reference = "ESTABLISHED"]
  /\ UNCHANGED <<kind, motor, inbox>>
-----------------------------------------------------------------------------
(***************************************************************************)
(* The motor (external).                                                   *)
(***************************************************************************)
Report ==
  /\ motor.on /\ Len(inbox) < MaxInbox
  /\ inbox' = Append(inbox, Status(motor))
  /\ motor' = [motor EXCEPT !.moved = FALSE]
  /\ UNCHANGED <<kind, driver>>

\* The shaft turns by less than half a turn between two reports: an enabled
\* motor towards its reference, a free one either way.
ShaftTurns ==
  /\ UsesPosition /\ ~motor.moved
  /\ ShaftMoves \/ (driver.step = "READY" /\ inbox = <<>>)
  /\ \E pos \in {motor.pos - 1, motor.pos + 1} \cap Positions :
       /\ motor.run => (motor.ref - motor.pos) * (pos - motor.pos) > 0
       /\ motor' = [motor EXCEPT !.pos = pos, !.moved = TRUE]
  /\ UNCHANGED <<kind, driver, inbox>>

\* A fault stops the motor; it reports the fault at once and with each
\* feedback, and the fault lasts until the driver has heard of it.
FaultOccurs ==
  /\ Outages /\ motor.on /\ ~motor.fault /\ Len(inbox) < MaxInbox
  /\ motor' = [motor EXCEPT !.fault = TRUE, !.run = FALSE]
  /\ inbox' = Append(inbox, [type |-> "FAULT"])
  /\ UNCHANGED <<kind, driver>>

FaultClears ==
  /\ motor.fault /\ inbox = <<>> /\ motor' = [motor EXCEPT !.fault = FALSE]
  /\ UNCHANGED <<kind, driver, inbox>>

PowerFails ==
  /\ Outages /\ motor.on
  /\ motor' = [motor EXCEPT !.on = FALSE, !.run = FALSE, !.params = {},
                            !.ref = 0, !.fault = FALSE]
  /\ UNCHANGED <<kind, driver, inbox>>

PowerReturns ==
  /\ ~motor.on
  /\ LongOutages => driver.index = 0 /\ ~driver.enabled /\ inbox = <<>>
  /\ motor' = [motor EXCEPT !.on = TRUE]
  /\ UNCHANGED <<kind, driver, inbox>>

Requests == SetTarget \/ SetCurrentPosition
MotorSteps == Report \/ ShaftTurns \/ FaultOccurs \/ FaultClears
              \/ PowerFails \/ PowerReturns

Next == Period \/ PeriodOfAnother \/ Receive \/ Requests \/ MotorSteps
Spec == Init /\ [][Next]_vars
FairSpec == Spec /\ SF_vars(Period) /\ WF_vars(Receive)
-----------------------------------------------------------------------------
(***************************************************************************)
(* Properties.                                                             *)
(***************************************************************************)
\* A position motor goes into RUN only in its configured mode and with its
\* reference where the shaft is, so that ENABLE alone does not move it,
\* whatever frames were lost, late or refused on the way.
EnabledHolding ==
  [][UsesPosition /\ ~motor.run /\ motor'.run
       => 1 \in motor.params /\ motor.ref = motor.pos]_vars

\* A motor that is READY runs, with every parameter set, unless it lost power
\* or a frame that says otherwise is on its way.
ReadyIsComplete ==
  driver.step = "READY" /\ motor.on /\ inbox = <<>>
    => motor.run /\ motor.params = 1..Parameters

\* While READY the counted position is the shaft's, in whole turns too: no
\* restart, late answer or alignment shifts it.
CountsTurns ==
  [][UsesPosition /\ inbox # <<>> /\ inbox' = Tail(inbox)
       /\ Head(inbox).type = "FEEDBACK" /\ driver'.step = "READY"
       => driver'.count = Head(inbox).pos]_vars

\* The initialisation never reads past its table of parameters: a motor that
\* starts over starts with the first.
WithinTable ==
  /\ driver.index <= Parameters
  /\ driver.step \in {"WRITE_PARAMETER", "WAIT_AFTER_WRITE",
                      "READ_PARAMETER", "WAIT_FOR_READ"}
       => driver.index < Parameters

\* A READY position motor was enabled since the last restart and has a position
\* reference, so that no target is dropped for want of one.
ReadyHasReference ==
  UsesPosition /\ driver.step = "READY"
    => driver.enabled /\ driver.reference \in {"TEMPORARY", "ESTABLISHED"}

\* A position target is kept only as long as the coordinates it was given in:
\* it is gone after a restart, a fault, or a new position reference.
TargetInItsFrame ==
  UsesPosition /\ driver.target # {}
    => /\ driver.step = "READY"
       /\ \A t \in driver.target : t.offset = driver.offset

\* A speed that nobody refreshes ends, in the driver or by a new initialisation,
\* whatever faults and outages come between: the wheel does not keep turning.
StaleVelocityEnds ==
  <>[](/\ ~UsesPosition /\ motor.on /\ ~motor.fault
       /\ driver.target = {} \/ driver.targetAge > TargetTimeout)
    => <>[](motor.ref = 0)

\* Without losses, a motor that keeps its power and has no fault becomes
\* READY: no retry, fault or restart leads the initialisation astray.
BecomesReady ==
  <>[](motor.on /\ ~motor.fault) => []<>(driver.step = "READY")
=============================================================================
