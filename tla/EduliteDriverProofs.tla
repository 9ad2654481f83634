------------------------- MODULE EduliteDriverProofs -------------------------
(***************************************************************************)
(* Theorems about the EduLite05 driver, for every value of its constants   *)
(* and every behaviour of the bus and the motor that their hypotheses      *)
(* allow: its types, that it stays within its parameter table, that READY  *)
(* implies a position reference and a complete initialisation, that a      *)
(* position target never outlives its coordinates, that enabling a motor   *)
(* moves nothing, and that no turn of the shaft is lost or counted twice.  *)
(***************************************************************************)
EXTENDS EduliteDriver, TLAPS

USE DEF SendSteps, AnswerSteps, SettleSteps, Steps

Known == {"TEMPORARY", "ESTABLISHED"}
TableSteps == {"WRITE_PARAMETER", "WAIT_AFTER_WRITE",
               "READ_PARAMETER", "WAIT_FOR_READ"}

InTable(d) == d.index <= Parameters /\ (d.step \in TableSteps => d.index < Parameters)

\* READY comes after ENABLE was confirmed by a feedback frame, and the first
\* feedback frame after a restart gives a position motor its reference.
HasReference(d) ==
  /\ UsesPosition => d.reference # "NOT_REQUIRED"
  /\ d.step = "READY" => d.enabled
  /\ UsesPosition /\ d.enabled => d.reference \in Known

InFrame(d) ==
  UsesPosition /\ d.target # {}
    => d.step = "READY" /\ \A t \in d.target : t.offset = d.offset

Sound(d) == d \in Drivers /\ InTable(d) /\ HasReference(d) /\ InFrame(d)

IInv == TypeOK /\ Sound(driver)
-----------------------------------------------------------------------------
LEMMA WrappedType == ASSUME NEW p \in Int PROVE Wrapped(p) \in Int
BY EduliteAssumption DEF Wrapped

LEMMA UnwrappedType == ASSUME NEW x \in Int PROVE Unwrapped(x) \in Int
BY EduliteAssumption DEF Unwrapped

LEMMA LaterType == ASSUME NEW t \in Nat PROVE Later(t) \in Nat
BY EduliteAssumption DEF Later

LEMMA RestartSound ==
  ASSUME NEW d \in Drivers
  PROVE  Sound(Restart(d))
<1> DEFINE e == [d EXCEPT !.enabled = FALSE, !.nonRun = 0, !.index = 0,
                   !.retries = 0, !.step = "WRITE_PARAMETER", !.target = {}]
<1>a. e \in Drivers
  BY DEF Drivers
<1>b. [e EXCEPT !.reference = "UNAVAILABLE", !.count = 0, !.last = 0,
                !.known = FALSE, !.aligning = FALSE] \in Drivers
  <2> HIDE DEF e
  <2>1. e \in Drivers
    BY <1>a
  <2>2. \A a \in Drivers : /\ [a EXCEPT !.reference = "UNAVAILABLE"] \in Drivers
                           /\ [a EXCEPT !.count = 0] \in Drivers
                           /\ [a EXCEPT !.last = 0] \in Drivers
                           /\ [a EXCEPT !.known = FALSE] \in Drivers
                           /\ [a EXCEPT !.aligning = FALSE] \in Drivers
    <3> TAKE a \in Drivers
    <3>1. [a EXCEPT !.reference = "UNAVAILABLE"] \in Drivers BY DEF Drivers
    <3>2. [a EXCEPT !.count = 0] \in Drivers BY DEF Drivers
    <3>3. [a EXCEPT !.last = 0] \in Drivers BY DEF Drivers
    <3>4. [a EXCEPT !.known = FALSE] \in Drivers BY DEF Drivers
    <3>5. [a EXCEPT !.aligning = FALSE] \in Drivers BY DEF Drivers
    <3> QED BY <3>1, <3>2, <3>3, <3>4, <3>5
  <2> QED BY <2>1, <2>2, Zenon
<1>1. Restart(d) \in Drivers
  BY <1>a, <1>b DEF Restart
<1>2. /\ Restart(d).index = 0 /\ Restart(d).step = "WRITE_PARAMETER"
      /\ Restart(d).enabled = FALSE /\ Restart(d).target = {}
      /\ UsesPosition => Restart(d).reference = "UNAVAILABLE"
  BY DEF Restart, Drivers
<1> QED BY <1>1, <1>2, EduliteAssumption
        DEF Sound, InTable, HasReference, InFrame

LEMMA FaultedSound ==
  ASSUME NEW d, Sound(d)
  PROVE  Sound(Faulted(d))
<1>1. Faulted(d) \in Drivers
  BY DEF Faulted, Sound, Drivers
<1>2. /\ Faulted(d).index = d.index /\ Faulted(d).step = "ERROR"
      /\ Faulted(d).enabled = FALSE /\ Faulted(d).target = {}
      /\ Faulted(d).reference = d.reference
  BY DEF Faulted, Sound, Drivers
<1> QED BY <1>1, <1>2 DEF Sound, InTable, HasReference, InFrame,
                        TableSteps

LEMMA HeardSound ==
  ASSUME NEW d, Sound(d)
  PROVE  /\ Sound(Heard(d)) /\ Heard(d).step = d.step
         /\ Heard(d).index = d.index
<1>1. Heard(d) \in Drivers
  BY DEF Heard, Sound, Drivers
<1>2. /\ Heard(d).index = d.index /\ Heard(d).step = d.step
      /\ Heard(d).enabled = d.enabled /\ Heard(d).target = d.target
      /\ Heard(d).reference = d.reference /\ Heard(d).offset = d.offset
  BY DEF Heard, Sound, Drivers
<1> QED BY <1>1, <1>2 DEF Sound, InTable, HasReference, InFrame

\* A retry, from any step that waits for an answer, keeps what READY needs.
LEMMA RetrySound ==
  ASSUME NEW d, Sound(d), d.step \in AnswerSteps
  PROVE  Sound(Retry(d))
<1> DEFINE e == [d EXCEPT !.retries = @ + 1]
<1>a. e \in Drivers
  BY DEF Sound, Drivers
<1>b. \A s \in Steps : [e EXCEPT !.step = s] \in Drivers
  <2> HIDE DEF e
  <2> QED BY <1>a DEF Drivers
<1>c. [e EXCEPT !.enabled = FALSE, !.step = "ERROR", !.age = 0] \in Drivers
  <2> HIDE DEF e
  <2> QED BY <1>a DEF Drivers
<1>1. Retry(d) \in Drivers
  <2> HIDE DEF e
  <2>1. CASE e.retries > MaxRetries
    BY <2>1, <1>c DEF Retry, e
  <2>2. CASE ~(e.retries > MaxRetries)
    BY <2>2, <1>b DEF Retry, e
  <2> QED BY <2>1, <2>2
<1>2. /\ Retry(d).index = d.index /\ Retry(d).target = d.target
      /\ Retry(d).reference = d.reference
      /\ Retry(d).enabled = d.enabled \/ Retry(d).enabled = FALSE
      /\ Retry(d).step \in {"ERROR", "ENABLE", "READ_STARTUP_POSITION",
                            "WRITE_PARAMETER"}
      /\ Retry(d).step = "WRITE_PARAMETER" => d.step = "WAIT_FOR_READ"
  BY DEF Retry, Sound, Drivers
<1>3. UsesPosition => d.target = {}
  BY DEF Sound, InFrame
<1> QED BY <1>1, <1>2, <1>3 DEF Sound, InTable, HasReference, InFrame, TableSteps
-----------------------------------------------------------------------------
(***************************************************************************)
(* The command timer.                                                      *)
(***************************************************************************)
LEMMA ElapsedSound ==
  ASSUME NEW d, Sound(d)
  PROVE  Sound(Elapsed(d))
<1>1. d.age \in Nat /\ d.silence \in Nat /\ d.targetAge \in Nat
  BY DEF Sound, Drivers
<1>2. Elapsed(d) \in Drivers
  BY <1>1, LaterType DEF Elapsed, Sound, Drivers
<1>3. /\ Elapsed(d).index = d.index /\ Elapsed(d).step = d.step
      /\ Elapsed(d).enabled = d.enabled /\ Elapsed(d).target = d.target
      /\ Elapsed(d).reference = d.reference /\ Elapsed(d).offset = d.offset
  BY DEF Elapsed, Sound, Drivers
<1> QED BY <1>2, <1>3 DEF Sound, InTable, HasReference, InFrame

LEMMA WatchedSound ==
  ASSUME NEW d, Sound(d)
  PROVE  Sound(Watched(d))
<1>1. [d EXCEPT !.connected = FALSE] \in Drivers
  BY DEF Sound, Drivers
<1> QED BY <1>1, RestartSound DEF Watched

LEMMA AdvancedSound ==
  ASSUME NEW d, Sound(d)
  PROVE  Sound(Advanced(d))
<1> DEFINE read == [d EXCEPT !.step = "READ_PARAMETER"]
           hold == [d EXCEPT !.step = "READ_STARTUP_HOLD"]
<1>1. d.step = "WAIT_AFTER_WRITE" => Sound(read)
  BY DEF Sound, Drivers, InTable, HasReference, InFrame, TableSteps
<1>2. d.step = "WAIT_AFTER_STARTUP_HOLD_WRITE" => Sound(hold)
  BY DEF Sound, Drivers, InTable, HasReference, InFrame, TableSteps
<1>3. d \in Drivers
  BY DEF Sound
<1> QED BY <1>1, <1>2, <1>3, RetrySound, RestartSound DEF Advanced

LEMMA SentSound ==
  ASSUME NEW d, Sound(d)
  PROVE  Sound(Sent(d))
<1>1. CASE d.step \in SendSteps
  <2>1. /\ WaitOf(d.step) \in Steps /\ WaitOf(d.step) # "READY"
        /\ WaitOf(d.step) \in TableSteps => d.step \in TableSteps
    BY <1>1 DEF WaitOf, TableSteps
  <2>2. Sent(d) \in Drivers
    BY <1>1, <2>1 DEF Sent, Sound, Drivers
  <2>3. /\ Sent(d).step = WaitOf(d.step) /\ Sent(d).index = d.index
        /\ Sent(d).enabled = d.enabled /\ Sent(d).target = d.target
        /\ Sent(d).reference = d.reference
    BY <1>1 DEF Sent, Sound, Drivers
  <2>4. UsesPosition => d.target = {}
    BY <1>1 DEF Sound, InFrame
  <2> QED BY <2>1, <2>2, <2>3, <2>4
          DEF Sound, InTable, HasReference, InFrame
<1>2. CASE d.step \notin SendSteps
  BY <1>2 DEF Sent
<1> QED BY <1>1, <1>2
-----------------------------------------------------------------------------
(***************************************************************************)
(* Frames from the motor.                                                  *)
(***************************************************************************)
LEMMA CountedSound ==
  ASSUME NEW d, Sound(d), NEW w \in Int
  PROVE  Sound(Counted(d, w)) /\ Counted(d, w).step = d.step
         /\ Counted(d, w).reference = d.reference
<1>1. d.hold \in Int /\ d.count \in Int /\ d.last \in Int
  BY DEF Sound, Drivers
<1>2. Unwrapped(w - d.last) \in Int
  BY <1>1, UnwrappedType
<1>3. d.count + Unwrapped(w - d.last) \in Int
  BY <1>1, <1>2
<1>4. Counted(d, w) \in Drivers
  BY <1>1, <1>3 DEF Counted, Sound, Drivers
<1>5. LET e == Counted(d, w) IN
      /\ e.index = d.index /\ e.step = d.step /\ e.enabled = d.enabled
      /\ e.target = d.target /\ e.reference = d.reference
      /\ e.offset = d.offset
  BY DEF Counted, Sound, Drivers
<1> QED BY <1>4, <1>5 DEF Sound, InTable, HasReference, InFrame

\* The offset changes only where there was no reference, so not while READY.
LEMMA ReferencedSound ==
  ASSUME NEW d, Sound(d)
  PROVE  /\ Sound(Referenced(d)) /\ Referenced(d).step = d.step
         /\ UsesPosition => Referenced(d).reference # "UNAVAILABLE"
<1>1. CASE d.reference # "UNAVAILABLE"
  BY <1>1 DEF Referenced
<1>2. CASE d.reference = "UNAVAILABLE"
  <2>1. -d.count \in Int /\ Offset \in Int
    BY EduliteAssumption DEF Sound, Drivers
  <2>2. Referenced(d) \in Drivers
    BY <1>2, <2>1 DEF Referenced, Sound, Drivers
  <2>3. /\ Referenced(d).index = d.index /\ Referenced(d).step = d.step
        /\ Referenced(d).enabled = d.enabled
        /\ Referenced(d).target = d.target
        /\ Referenced(d).reference \in Known
    BY <1>2 DEF Referenced, Sound, Drivers, Known
  <2>4. UsesPosition => d.step # "READY" /\ d.target = {}
    BY <1>2 DEF Sound, HasReference, InFrame, Known
  <2> QED BY <2>2, <2>3, <2>4
          DEF Sound, InTable, HasReference, InFrame, Known
<1> QED BY <1>1, <1>2

LEMMA ConfirmedSound ==
  ASSUME NEW d, Sound(d), d.step = "WAIT_FOR_ENABLE",
         UsesPosition => d.reference \in Known
  PROVE  Sound(Confirmed(d))
<1>1. Confirmed(d) \in Drivers
  BY DEF Confirmed, Sound, Drivers
<1>2. /\ Confirmed(d).index = d.index /\ Confirmed(d).enabled = TRUE
      /\ Confirmed(d).target = d.target
      /\ Confirmed(d).reference = d.reference
      /\ Confirmed(d).step \in {"READY", "WRITE_PARAMETER"}
      /\ Confirmed(d).step = "WRITE_PARAMETER" => ~(d.index >= Parameters)
  BY DEF Confirmed, Sound, Drivers
<1>3. UsesPosition => d.target = {}
  BY DEF Sound, InFrame
<1>4. d.index \in Nat /\ Parameters \in Nat
  BY EduliteAssumption DEF Sound, Drivers
<1> QED BY <1>1, <1>2, <1>3, <1>4
        DEF Sound, InTable, HasReference, InFrame, TableSteps

LEMMA DebouncedSound ==
  ASSUME NEW d, Sound(d), NEW run \in BOOLEAN
  PROVE  Sound(Debounced(d, run))
<1> DEFINE zero == [d EXCEPT !.nonRun = 0]
           more == [d EXCEPT !.nonRun = @ + 1]
<1>1. Sound(zero)
  BY DEF Sound, Drivers, InTable, HasReference, InFrame
<1>2. Sound(more)
  BY DEF Sound, Drivers, InTable, HasReference, InFrame
<1>3. d \in Drivers
  BY DEF Sound
<1> QED BY <1>1, <1>2, <1>3, RestartSound DEF Debounced

LEMMA FeedbackSound ==
  ASSUME Sound(driver), NEW f, f.pos \in Int, f.run \in BOOLEAN
  PROVE  Sound(Feedback(f))
<1> DEFINE d == Referenced(Counted(Heard(driver), Wrapped(f.pos)))
<1>1. Sound(d) /\ (UsesPosition => d.reference # "UNAVAILABLE")
  BY HeardSound, WrappedType, CountedSound, ReferencedSound
<1> HIDE DEF d
<1>2. UsesPosition => d.reference \in Known
  <2>1. CASE UsesPosition
    BY <1>1, <2>1 DEF Sound, HasReference, Drivers, Known
  <2> QED BY <2>1
<1> QED BY <1>1, <1>2, FaultedSound, ConfirmedSound, DebouncedSound
        DEF Feedback, d

LEMMA PositionReadSound ==
  ASSUME NEW d, Sound(d), d.step = "WAIT_FOR_STARTUP_POSITION", NEW v \in Int
  PROVE  Sound(PositionRead(d, v))
<1> DEFINE e == [d EXCEPT !.hold = v, !.step = "WRITE_STARTUP_HOLD"]
<1>1. e \in Drivers
  BY DEF Sound, Drivers
<1>2. [e EXCEPT !.aligning = TRUE] \in Drivers
  <2> HIDE DEF e
  <2> QED BY <1>1 DEF Drivers
<1>3. \A o \in Int : [e EXCEPT !.count = v, !.offset = o] \in Drivers
  <2> HIDE DEF e
  <2> QED BY <1>1 DEF Drivers
<1>4. -v \in Int /\ d.offset \in Int /\ e.offset = d.offset
  BY DEF Sound, Drivers
<1>5. PositionRead(d, v) \in Drivers
  <2> HIDE DEF e
  <2>1. CASE ~d.known
    BY <2>1, <1>2 DEF PositionRead, e
  <2>2. CASE d.known
    <3> DEFINE o == IF kind = "SERVICE" /\ d.reference # "ESTABLISHED"
                    THEN -v ELSE e.offset
    <3>1. PositionRead(d, v) = [e EXCEPT !.count = v, !.offset = o]
      BY <2>2 DEF PositionRead, e
    <3>2. o \in Int
      BY <1>4
    <3> HIDE DEF o
    <3> QED BY <3>1, <3>2, <1>3
  <2> QED BY <2>1, <2>2
<1>6. /\ PositionRead(d, v).index = d.index
      /\ PositionRead(d, v).step = "WRITE_STARTUP_HOLD"
      /\ PositionRead(d, v).enabled = d.enabled
      /\ PositionRead(d, v).reference = d.reference
      /\ PositionRead(d, v).target = d.target
  BY DEF PositionRead, Sound, Drivers
<1>7. UsesPosition => d.target = {}
  BY DEF Sound, InFrame
<1> QED BY <1>5, <1>6, <1>7
        DEF Sound, InTable, HasReference, InFrame, TableSteps

LEMMA VerifiedSound ==
  ASSUME NEW d, Sound(d), d.step = "WAIT_FOR_READ"
  PROVE  Sound(Verified(d))
<1>1. d.index \in Nat /\ Parameters \in Nat /\ d.index < Parameters
  BY EduliteAssumption DEF Sound, Drivers, InTable, TableSteps
<1>2. Verified(d) \in Drivers
  <2>1. \A s \in Steps, n \in Nat :
          [d EXCEPT !.retries = 0, !.index = n, !.step = s] \in Drivers
    BY DEF Sound, Drivers
  <2>2. \E s \in Steps : Verified(d)
          = [d EXCEPT !.retries = 0, !.index = d.index + 1, !.step = s]
    BY DEF Verified
  <2>3. d.index + 1 \in Nat
    BY <1>1
  <2> QED BY <2>1, <2>2, <2>3
<1>3. /\ Verified(d).index = d.index + 1
      /\ Verified(d).enabled = d.enabled
      /\ Verified(d).reference = d.reference
      /\ Verified(d).target = d.target
  BY DEF Verified, Sound, Drivers
<1>4. /\ Verified(d).step \in {"READY", "ENABLE", "WRITE_PARAMETER",
                              "READ_STARTUP_POSITION"}
      /\ Verified(d).step = "READY" => d.enabled
      /\ Verified(d).step = "WRITE_PARAMETER" => ~(d.index + 1 >= Parameters)
  BY DEF Verified, Sound, Drivers
<1>5. UsesPosition => d.target = {}
  BY DEF Sound, InFrame
<1> QED BY <1>1, <1>2, <1>3, <1>4, <1>5
        DEF Sound, InTable, HasReference, InFrame, TableSteps

LEMMA ResponseSound ==
  ASSUME Sound(driver), NEW a \in Answers
  PROVE  Sound(Response(a))
<1> DEFINE d == Heard(driver)
<1>1. Sound(d)
  BY HeardSound
<1> HIDE DEF d
<1>2. CASE d.step = "WAIT_FOR_STARTUP_POSITION"
  <2>1. a.type = "POSITION" => a.value \in Int
    BY DEF Answers
  <2> QED BY <1>1, <1>2, <2>1, RetrySound, PositionReadSound DEF Response, d
<1>3. CASE d.step = "WAIT_FOR_STARTUP_HOLD"
  <2> DEFINE e == [d EXCEPT !.retries = 0, !.step = "ENABLE"]
  <2>1. Sound(e)
    BY <1>1, <1>3 DEF Sound, Drivers, InTable, HasReference, InFrame, TableSteps
  <2> QED BY <1>1, <1>3, <2>1, RetrySound DEF Response, d
<1>4. CASE d.step = "WAIT_FOR_READ"
  BY <1>1, <1>4, RetrySound, VerifiedSound DEF Response, d
<1>5. CASE d.step \notin {"WAIT_FOR_STARTUP_POSITION", "WAIT_FOR_STARTUP_HOLD",
                          "WAIT_FOR_READ"}
  BY <1>1, <1>5 DEF Response, d
<1> QED BY <1>2, <1>3, <1>4, <1>5

LEMMA ReceiveSound ==
  ASSUME TypeOK, Sound(driver), Receive
  PROVE  TypeOK' /\ Sound(driver)'
<1> DEFINE f == Head(inbox)
<1>1. f \in Answers /\ inbox' \in Seq(Answers)
  BY DEF TypeOK, Receive
<1>2. UNCHANGED <<kind, motor>>
  BY DEF Receive
<1>3. Sound(driver')
  <2> HIDE DEF f
  <2>1. CASE f.type = "FEEDBACK"
    <3>1. f.pos \in Int /\ f.run \in BOOLEAN
      BY <1>1, <2>1 DEF Answers
    <3>2. driver' = Feedback(f)
      BY <2>1 DEF Receive, f
    <3> QED BY <3>1, <3>2, FeedbackSound
  <2>2. CASE f.type = "FAULT"
    <3>1. driver' = Faulted(Heard(driver))
      BY <2>2 DEF Receive, f
    <3> QED BY <3>1, HeardSound, FaultedSound
  <2>3. CASE f.type \notin {"FEEDBACK", "FAULT"}
    <3>1. driver' = Response(f)
      BY <2>3 DEF Receive, f
    <3> QED BY <3>1, <1>1, ResponseSound
  <2> QED BY <2>1, <2>2, <2>3
<1>4. Sound(driver)' = Sound(driver')
  BY <1>2 DEF Sound, InTable, HasReference, InFrame, UsesPosition
<1>5. driver' \in Drivers
  BY <1>3 DEF Sound
<1> QED BY <1>1, <1>2, <1>3, <1>4, <1>5 DEF TypeOK
-----------------------------------------------------------------------------
(***************************************************************************)
(* The command timer on the bus, the requests and the motor.               *)
(***************************************************************************)
LEMMA ClampType == ASSUME NEW x \in Int PROVE Clamp(x) \in Int
BY EduliteAssumption DEF Clamp

LEMMA StatusType == ASSUME NEW m \in Motors PROVE Status(m) \in Answers
BY DEF Status, Motors, Answers

LEMMA ObeysType ==
  ASSUME NEW m \in Motors, NEW d, Sound(d)
  PROVE  Obeys(m, d.step, d) \in Motors
<1>1. CASE d.step = "WRITE_PARAMETER"
  <2>1. d.index \in Nat /\ d.index < Parameters /\ Parameters \in Nat
    BY <1>1, EduliteAssumption DEF Sound, Drivers, InTable, TableSteps
  <2>2. d.index + 1 \in 1..Parameters
    BY <2>1
  <2>3. m.params \cup {d.index + 1} \in SUBSET (1..Parameters)
    BY <2>2 DEF Motors
  <2>4. \A r \in Int, p \in SUBSET (1..Parameters) :
          [m EXCEPT !.params = p, !.ref = r] \in Motors
    BY DEF Motors
  <2>5. m.ref \in Int
    BY DEF Motors
  <2> DEFINE p == m.params \cup {d.index + 1}
             r == IF ~UsesPosition /\ d.index = 1 THEN 0 ELSE m.ref
  <2>6. Obeys(m, d.step, d) = [m EXCEPT !.params = p, !.ref = r]
    BY <1>1 DEF Obeys
  <2>7. p \in SUBSET (1..Parameters) /\ r \in Int
    BY <2>3, <2>5
  <2> HIDE DEF p, r
  <2> QED BY <2>4, <2>6, <2>7
<1>2. CASE d.step = "WRITE_STARTUP_HOLD"
  BY <1>2 DEF Obeys, Sound, Drivers, Motors
<1>3. CASE d.step = "ENABLE"
  BY <1>3 DEF Obeys, Motors
<1>4. CASE d.step \notin {"WRITE_PARAMETER", "WRITE_STARTUP_HOLD", "ENABLE"}
  BY <1>4 DEF Obeys
<1> QED BY <1>1, <1>2, <1>3, <1>4

LEMMA AnswersType ==
  ASSUME NEW m \in Motors, NEW d \in Drivers,
         NEW a \in AnswersTo(m, d.step, d)
  PROVE  a \in Answers
<1> DEFINE oks == IF Losses THEN BOOLEAN ELSE {TRUE}
<1>1. oks \subseteq BOOLEAN /\ d.index \in Nat /\ m.pos \in Int /\ m.ref \in Int
  BY DEF Drivers, Motors
<1> HIDE DEF oks
<1>2. CASE d.step = "READ_PARAMETER"
  <2>1. a \in [type : {"PARAMETER"}, index : {d.index}, ok : oks,
               match : {d.index + 1 \in m.params}]
    BY <1>2 DEF AnswersTo, oks
  <2> DEFINE match == d.index + 1 \in m.params
  <2>2. match \in BOOLEAN
    OBVIOUS
  <2> HIDE DEF match
  <2>3. a \in [type : {"PARAMETER"}, index : Nat, ok : BOOLEAN, match : BOOLEAN]
    BY <1>1, <2>1, <2>2 DEF match
  <2> QED BY <2>3 DEF Answers
<1>3. CASE d.step = "READ_STARTUP_POSITION"
  <2>1. a \in [type : {"POSITION"}, ok : oks, value : {m.pos}]
    BY <1>3 DEF AnswersTo, oks
  <2> QED BY <1>1, <2>1 DEF Answers
<1>4. CASE d.step = "READ_STARTUP_HOLD"
  <2>1. a \in [type : {"HOLD"}, ok : oks, value : {m.ref}]
    BY <1>4 DEF AnswersTo, oks
  <2> QED BY <1>1, <2>1 DEF Answers
<1>5. CASE d.step \notin {"READ_PARAMETER", "READ_STARTUP_POSITION",
                         "READ_STARTUP_HOLD"}
  BY <1>5, StatusType DEF AnswersTo
<1> QED BY <1>2, <1>3, <1>4, <1>5

LEMMA TargetFrameType ==
  ASSUME NEW d \in Drivers, NEW r \in TargetFrame(d)
  PROVE  r \in Int
<1>1. \A t \in d.target : t.value \in Int
  BY DEF Drivers
<1>2. d.offset \in Int
  BY DEF Drivers
<1>3. CASE UsesPosition
  <2>1. PICK t \in d.target : r = Clamp(t.value) - d.offset
    BY <1>3 DEF TargetFrame
  <2> QED BY <1>1, <1>2, <2>1, ClampType
<1>4. CASE ~UsesPosition
  <2>1. PICK t \in d.target :
          r = Clamp(IF d.targetAge > TargetTimeout THEN 0 ELSE t.value)
    BY <1>4 DEF TargetFrame
  <2>2. (IF d.targetAge > TargetTimeout THEN 0 ELSE t.value) \in Int
    BY <1>1
  <2> QED BY <2>1, <2>2, ClampType
<1> QED BY <1>3, <1>4

LEMMA QueueType ==
  ASSUME inbox \in Seq(Answers), NEW a \in Answers, Queue(a)
  PROVE  inbox' \in Seq(Answers)
BY DEF Queue

\* What is Sound of the new driver is Sound in the new state: kind is fixed.
LEMMA SoundNext ==
  ASSUME UNCHANGED kind, Sound(driver')
  PROVE  Sound(driver)' /\ driver' \in Drivers
BY DEF Sound, InTable, HasReference, InFrame, UsesPosition

LEMMA TickSound ==
  ASSUME TypeOK, Sound(driver), NEW turn \in BOOLEAN, Tick(turn)
  PROVE  TypeOK' /\ Sound(driver)'
<1> DEFINE watched == Watched(Elapsed(driver))
           d == IF turn THEN Advanced(watched) ELSE watched
           sends == turn /\ d.step \in SendSteps
<1>1. Sound(d)
  <2>1. Sound(watched)
    BY ElapsedSound, WatchedSound
  <2> HIDE DEF watched
  <2> QED BY <2>1, AdvancedSound
<1>2. /\ driver' = IF turn THEN Sent(d) ELSE d
      /\ \/ UNCHANGED <<motor, inbox>>
         \/ /\ motor' = Obeys(motor, d.step, d)
            /\ \E answer \in AnswersTo(motor', d.step, d) : Queue(answer)
         \/ \E ref \in TargetFrame(d) :
              motor' = [motor EXCEPT !.ref = ref] /\ Queue(Status(motor'))
      /\ UNCHANGED kind
  BY DEF Tick
<1>3. motor \in Motors /\ inbox \in Seq(Answers) /\ kind \in Kinds
  BY DEF TypeOK
<1> HIDE DEF d
<1>4. d \in Drivers
  BY <1>1 DEF Sound
<1>5. Sound(driver')
  BY <1>1, <1>2, SentSound
<1>6. Sound(driver)' /\ driver' \in Drivers
  BY <1>2, <1>5, SoundNext
<1>7. motor' \in Motors /\ inbox' \in Seq(Answers)
  <2>1. CASE UNCHANGED <<motor, inbox>>
    BY <2>1, <1>3
  <2>2. ASSUME motor' = Obeys(motor, d.step, d),
               NEW answer \in AnswersTo(motor', d.step, d), Queue(answer)
        PROVE  motor' \in Motors /\ inbox' \in Seq(Answers)
    <3>1. motor' \in Motors
      BY <2>2, <1>1, <1>3, ObeysType
    <3>2. answer \in Answers
      BY <3>1, <1>4, <2>2, AnswersType
    <3> QED BY <3>1, <3>2, <2>2, <1>3, QueueType
  <2>3. ASSUME NEW ref \in TargetFrame(d),
               motor' = [motor EXCEPT !.ref = ref], Queue(Status(motor'))
        PROVE  motor' \in Motors /\ inbox' \in Seq(Answers)
    <3>1. ref \in Int
      BY <1>4, TargetFrameType
    <3>2. motor' \in Motors
      BY <2>3, <3>1, <1>3 DEF Motors
    <3>3. Status(motor') \in Answers
      BY <3>2, StatusType
    <3> QED BY <3>2, <3>3, <2>3, <1>3, QueueType
  <2> QED BY <1>2, <2>1, <2>2, <2>3
<1> QED BY <1>2, <1>3, <1>6, <1>7 DEF TypeOK

LEMMA RequestsSound ==
  ASSUME TypeOK, Sound(driver), Requests
  PROVE  TypeOK' /\ Sound(driver)'
<1>1. driver \in Drivers /\ driver.offset \in Int /\ driver.count \in Int
  BY DEF Sound, Drivers
<1>2. CASE SetTarget
  <2>1. PICK t \in Targets :
          /\ IF UsesPosition THEN driver.step = "READY" ELSE TRUE
          /\ driver' = [driver EXCEPT !.targetAge = 0,
               !.target = {[value |-> t, offset |-> driver.offset]}]
          /\ UNCHANGED <<kind, motor, inbox>>
    BY <1>2 DEF SetTarget
  <2> DEFINE r == [value |-> t, offset |-> driver.offset]
  <2>2. {r} \in SUBSET [value : Int, offset : Int] /\ r.offset = driver.offset
    BY <1>1, EduliteAssumption
  <2>3. driver' = [driver EXCEPT !.targetAge = 0, !.target = {r}]
    BY <2>1
  <2> HIDE DEF r
  <2>4. driver' \in Drivers
    BY <1>1, <2>2, <2>3 DEF Drivers
  <2>5. /\ driver'.index = driver.index /\ driver'.step = driver.step
        /\ driver'.enabled = driver.enabled
        /\ driver'.reference = driver.reference
        /\ driver'.offset = driver.offset /\ driver'.target = {r}
    BY <1>1, <2>3 DEF Drivers
  <2>6. Sound(driver')
    BY <2>1, <2>2, <2>4, <2>5 DEF Sound, InTable, HasReference, InFrame
  <2> QED BY <2>1, <2>6, SoundNext DEF TypeOK
<1>3. CASE SetCurrentPosition
  <2>1. /\ driver' = [driver EXCEPT !.offset = -driver.count, !.target = {},
                                    !.reference = "ESTABLISHED"]
        /\ UNCHANGED <<kind, motor, inbox>>
    BY <1>3 DEF SetCurrentPosition
  <2>2. -driver.count \in Int
    BY <1>1
  <2>3. driver' \in Drivers
    BY <1>1, <2>1, <2>2 DEF Drivers
  <2>4. /\ driver'.index = driver.index /\ driver'.step = driver.step
        /\ driver'.enabled = driver.enabled
        /\ driver'.reference = "ESTABLISHED" /\ driver'.target = {}
    BY <1>1, <2>1 DEF Drivers
  <2>5. Sound(driver')
    BY <2>3, <2>4 DEF Sound, InTable, HasReference, InFrame, Known
  <2> QED BY <2>1, <2>5, SoundNext DEF TypeOK
<1> QED BY <1>2, <1>3 DEF Requests

LEMMA MotorStepsType ==
  ASSUME TypeOK, MotorSteps
  PROVE  TypeOK' /\ UNCHANGED <<kind, driver>>
<1>1. motor \in Motors /\ inbox \in Seq(Answers)
  BY DEF TypeOK
<1>2. CASE Report
  <2>1. Status(motor) \in Answers
    BY <1>1, StatusType
  <2>2. motor' \in Motors
    BY <1>1, <1>2 DEF Report, Motors
  <2>3. inbox' \in Seq(Answers)
    BY <1>1, <1>2, <2>1 DEF Report
  <2> QED BY <1>2, <2>2, <2>3 DEF Report, TypeOK
<1>3. CASE ShaftTurns
  <2>1. PICK pos \in Positions :
          motor' = [motor EXCEPT !.pos = pos, !.moved = TRUE]
    BY <1>3 DEF ShaftTurns
  <2>2. pos \in Int
    BY EduliteAssumption
  <2>3. motor' \in Motors
    BY <1>1, <2>1, <2>2 DEF Motors
  <2> QED BY <1>3, <2>3 DEF ShaftTurns, TypeOK
<1>4. CASE FaultOccurs
  <2>1. [type |-> "FAULT"] \in Answers
    BY DEF Answers
  <2>2. motor' \in Motors
    BY <1>1, <1>4 DEF FaultOccurs, Motors
  <2> QED BY <1>1, <1>4, <2>1, <2>2 DEF FaultOccurs, TypeOK
<1>5. CASE FaultClears
  BY <1>1, <1>5 DEF FaultClears, TypeOK, Motors
<1>6. CASE PowerFails
  <2> DEFINE off == [motor EXCEPT !.on = FALSE, !.run = FALSE]
             cleared == [off EXCEPT !.params = {}, !.ref = 0]
  <2>b. off \in Motors
    BY <1>1 DEF Motors
  <2>c. motor' = [cleared EXCEPT !.fault = FALSE]
    BY <1>6 DEF PowerFails
  <2> HIDE DEF off
  <2>d. cleared \in Motors
    <3>1. \A p \in SUBSET (1..Parameters) : [off EXCEPT !.params = p] \in Motors
      BY <2>b DEF Motors
    <3>2. [off EXCEPT !.params = {}] \in Motors
      BY <3>1
    <3>3. \A m \in Motors : [m EXCEPT !.ref = 0] \in Motors
      BY DEF Motors
    <3> QED BY <3>2, <3>3
  <2> HIDE DEF cleared
  <2>1. motor' \in Motors
    BY <2>c, <2>d DEF Motors
  <2> QED BY <1>6, <2>1 DEF PowerFails, TypeOK
<1>7. CASE PowerReturns
  BY <1>1, <1>7 DEF PowerReturns, TypeOK, Motors
<1> QED BY <1>2, <1>3, <1>4, <1>5, <1>6, <1>7 DEF MotorSteps
-----------------------------------------------------------------------------
LEMMA InitSound == Init => IInv
<1> SUFFICES ASSUME Init PROVE IInv
  OBVIOUS
<1>1. kind \in Kinds /\ inbox \in Seq(Answers)
  BY DEF Init
<1>2. motor \in Motors
  <2>1. PICK pos \in IF UsesPosition THEN Positions ELSE {0} :
          motor = [on |-> TRUE, run |-> FALSE, params |-> {}, ref |-> 0,
                   pos |-> pos, moved |-> FALSE, fault |-> FALSE]
    BY DEF Init
  <2>2. pos \in Int
    BY EduliteAssumption
  <2>3. {} \in SUBSET (1..Parameters)
    OBVIOUS
  <2> QED BY <2>1, <2>2, <2>3 DEF Motors
<1>3. driver \in Drivers
  BY DEF Init, Drivers
<1>4. /\ driver.index = 0 /\ driver.step = "WRITE_PARAMETER"
      /\ driver.enabled = FALSE /\ driver.target = {}
      /\ UsesPosition => driver.reference = "UNAVAILABLE"
  BY DEF Init
<1>5. Sound(driver)
  BY <1>3, <1>4, EduliteAssumption DEF Sound, InTable, HasReference, InFrame
<1> QED BY <1>1, <1>2, <1>3, <1>5 DEF IInv, TypeOK

LEMMA NextSound == IInv /\ [Next]_vars => IInv'
<1> SUFFICES ASSUME IInv, [Next]_vars PROVE IInv'
  OBVIOUS
<1> USE DEF IInv
<1>1. CASE Period
  BY <1>1, TickSound DEF Period
<1>2. CASE PeriodOfAnother
  BY <1>2, TickSound DEF PeriodOfAnother
<1>3. CASE Receive
  BY <1>3, ReceiveSound
<1>4. CASE Requests
  BY <1>4, RequestsSound
<1>5. CASE MotorSteps
  BY <1>5, MotorStepsType DEF Sound, InTable, HasReference, InFrame, UsesPosition
<1>6. CASE UNCHANGED vars
  BY <1>6 DEF vars, TypeOK, Sound, InTable, HasReference, InFrame, UsesPosition
<1> QED BY <1>1, <1>2, <1>3, <1>4, <1>5, <1>6 DEF Next

LEMMA Invariant == Spec => []IInv
BY InitSound, NextSound, PTL DEF Spec

\* Every state of the driver, the bus and the motor has its type; the
\* registers stay 1..Parameters, the frames those the motor sends.
THEOREM TypeCorrect == Spec => []TypeOK
<1>1. IInv => TypeOK
  BY DEF IInv
<1> QED BY <1>1, Invariant, PTL

\* No sequence of lost, late or refused frames, faults and restarts makes
\* create_initialization_frame read past its parameter table.
THEOREM StaysWithinTable == Spec => []WithinTable
<1>1. IInv => WithinTable
  BY DEF IInv, Sound, InTable, WithinTable, TableSteps
<1> QED BY <1>1, Invariant, PTL

\* A READY position motor was enabled since the last restart and has a
\* position reference.
THEOREM ReadyIsReferenced == Spec => []ReadyHasReference
<1>1. IInv => ReadyHasReference
  BY DEF IInv, Sound, HasReference, ReadyHasReference, Known
<1> QED BY <1>1, Invariant, PTL

\* A position target does not outlive the coordinates it was given in.
THEOREM TargetStaysInFrame == Spec => []TargetInItsFrame
<1>1. IInv => TargetInItsFrame
  BY DEF IInv, Sound, InFrame, TargetInItsFrame
<1> QED BY <1>1, Invariant, PTL
-----------------------------------------------------------------------------
(***************************************************************************)
(* Where a step leads.  The steps form phases, gone through in this order: *)
(* the table of parameters, the startup position, its hold, and ENABLE.    *)
(***************************************************************************)
PositionSteps == {"READ_STARTUP_POSITION", "WAIT_FOR_STARTUP_POSITION"}
HoldSteps == {"WRITE_STARTUP_HOLD", "WAIT_AFTER_STARTUP_HOLD_WRITE",
              "READ_STARTUP_HOLD", "WAIT_FOR_STARTUP_HOLD"}
EnableSteps == {"ENABLE", "WAIT_FOR_ENABLE"}

\* e knows as much as d of the table, the position and the hold.
Kept(d, e) ==
  /\ e.index = d.index /\ e.hold = d.hold
  /\ e.known = d.known /\ e.aligning = d.aligning
  /\ e.count = d.count /\ e.last = d.last

\* Without news from the motor the driver stays in a phase, reads the position
\* again or gives up.
MovesTo(d, e) ==
  /\ Kept(d, e)
  /\ e.enabled = d.enabled \/ (e.step = "ERROR" /\ ~e.enabled)
  /\ \/ e.step = "ERROR" \/ (d.step = "READY" /\ e.step = "READY")
     \/ d.step \in TableSteps /\ e.step \in TableSteps
     \/ d.step \in PositionSteps \cup HoldSteps /\ e.step \in PositionSteps
     \/ d.step \in HoldSteps /\ e.step \in HoldSteps
     \/ d.step \in EnableSteps /\ e.step \in EnableSteps

\* The initialisation has started over.
Fresh(e) == /\ e.index = 0 /\ e.step \in TableSteps \cup {"ERROR"} /\ ~e.enabled
            /\ UsesPosition => ~e.known /\ ~e.aligning

LEMMA RestartFresh ==
  ASSUME NEW d \in Drivers
  PROVE  Fresh(Restart(d))
BY DEF Fresh, Restart, Drivers, TableSteps

LEMMA RetryMoves ==
  ASSUME NEW d \in Drivers, d.step \in AnswerSteps
  PROVE  MovesTo(d, Retry(d))
BY DEF Retry, MovesTo, Kept, Drivers, TableSteps, PositionSteps, HoldSteps, EnableSteps

LEMMA StaysMoves ==
  ASSUME NEW d \in Drivers, NEW e, Kept(d, e), e.enabled = d.enabled, e.step = d.step
  PROVE  MovesTo(d, e)
BY DEF MovesTo, Drivers, TableSteps, PositionSteps, HoldSteps, EnableSteps

\* What the command timer makes of the driver, before and after it sends.
TimerDriver(turn) == IF turn THEN Advanced(Watched(Elapsed(driver)))
                             ELSE Watched(Elapsed(driver))

LEMMA TimerMoves ==
  ASSUME Sound(driver), NEW turn \in BOOLEAN
  PROVE  LET d == TimerDriver(turn)
             e == IF turn THEN Sent(d) ELSE d
         IN /\ Sound(d)
            /\ MovesTo(driver, d) \/ Fresh(d)
            /\ MovesTo(driver, e) \/ Fresh(e)
<1> DEFINE w == Watched(Elapsed(driver))
           d == TimerDriver(turn)
<1>1. Sound(Elapsed(driver)) /\ Elapsed(driver) \in Drivers
  BY ElapsedSound DEF Sound
<1>2. Kept(driver, Elapsed(driver)) /\ Elapsed(driver).enabled = driver.enabled
      /\ Elapsed(driver).step = driver.step
  BY DEF Kept, Elapsed, Sound, Drivers
<1>3. Sound(w) /\ (w = Elapsed(driver) \/ Fresh(w))
  <2>1. [Elapsed(driver) EXCEPT !.connected = FALSE] \in Drivers
    BY <1>1 DEF Drivers
  <2> QED BY <1>1, <2>1, WatchedSound, RestartFresh DEF Watched
<1> HIDE DEF w
<1>4. MovesTo(driver, w) \/ Fresh(w)
  BY <1>2, <1>3, StaysMoves DEF Sound
<1>5. w \in Drivers
  BY <1>3 DEF Sound
<1>6. Sound(Advanced(w)) /\ (MovesTo(w, Advanced(w)) \/ Fresh(Advanced(w)))
  <2>1. \A s \in Steps : LET e == [w EXCEPT !.step = s] IN
          Kept(w, e) /\ e.enabled = w.enabled /\ e.step = s
    BY <1>5 DEF Kept, Drivers
  <2>2. w.step = "WAIT_AFTER_WRITE"
          => MovesTo(w, [w EXCEPT !.step = "READ_PARAMETER"])
    BY <2>1 DEF MovesTo, TableSteps
  <2>3. w.step = "WAIT_AFTER_STARTUP_HOLD_WRITE"
          => MovesTo(w, [w EXCEPT !.step = "READ_STARTUP_HOLD"])
    BY <2>1 DEF MovesTo, HoldSteps
  <2>4. MovesTo(w, w)
    BY <1>5, StaysMoves DEF Kept
  <2>5. w.step \in AnswerSteps => MovesTo(w, Retry(w))
    BY <1>5, RetryMoves
  <2>6. MovesTo(w, Advanced(w)) \/ Fresh(Advanced(w))
    BY <1>5, <2>2, <2>3, <2>4, <2>5, RestartFresh DEF Advanced
  <2> QED BY <1>3, <2>6, AdvancedSound
<1>7. ASSUME NEW a, NEW b, NEW c, MovesTo(a, b) \/ Fresh(b), MovesTo(b, c) \/ Fresh(c)
      PROVE  MovesTo(a, c) \/ Fresh(c)
  BY <1>7 DEF MovesTo, Kept, Fresh, TableSteps, PositionSteps, HoldSteps, EnableSteps
<1>8. Sound(d) /\ (MovesTo(driver, d) \/ Fresh(d))
  BY <1>3, <1>4, <1>6, <1>7 DEF TimerDriver, w
<1> HIDE DEF d
<1>9. MovesTo(d, Sent(d))
  <2>1. CASE d.step \in SendSteps
    <3>1. /\ Kept(d, Sent(d)) /\ Sent(d).enabled = d.enabled
          /\ Sent(d).step = WaitOf(d.step)
      BY <1>8, <2>1 DEF Sent, Sound, Drivers, Kept
    <3> QED BY <2>1, <3>1 DEF WaitOf, MovesTo, TableSteps, PositionSteps,
                              HoldSteps, EnableSteps
  <2>2. CASE d.step \notin SendSteps
    BY <1>8, <2>2, StaysMoves DEF Sent, Sound, Kept
  <2> QED BY <2>1, <2>2
<1>10. MovesTo(driver, Sent(d)) \/ Fresh(Sent(d))
  BY <1>7, <1>8, <1>9
<1> QED BY <1>8, <1>10 DEF d

\* A feedback frame counts the position; it may confirm ENABLE.
LEMMA FeedbackMoves ==
  ASSUME Sound(driver), NEW f, f.pos \in Int, f.run \in BOOLEAN
  PROVE  LET e == Feedback(f)
             c == Counted(Heard(driver), Wrapped(f.pos))
         IN \/ Fresh(e) /\ ~UsesPosition
            \/ /\ Kept(c, e)
               /\ \/ e.step = "ERROR" /\ ~e.enabled
                  \/ e.step = driver.step /\ e.enabled = driver.enabled
                  \/ /\ driver.step = "WAIT_FOR_ENABLE" /\ f.run /\ ~f.fault
                     /\ e.enabled
                     /\ e.step = IF driver.index >= Parameters
                                 THEN "READY" ELSE "WRITE_PARAMETER"
<1> DEFINE c == Counted(Heard(driver), Wrapped(f.pos))
           d == Referenced(c)
<1>1. Sound(Heard(driver)) /\ Heard(driver).step = driver.step
      /\ Heard(driver).index = driver.index
      /\ Heard(driver).enabled = driver.enabled
  <2>1. Heard(driver).enabled = driver.enabled
    BY DEF Heard, Sound, Drivers
  <2> QED BY <2>1, HeardSound
<1>2. /\ Sound(c) /\ c.step = driver.step /\ c.index = driver.index
      /\ c.enabled = driver.enabled
  <2>1. /\ Counted(Heard(driver), Wrapped(f.pos)).index = Heard(driver).index
        /\ Counted(Heard(driver), Wrapped(f.pos)).enabled = Heard(driver).enabled
    <3> DEFINE h == Heard(driver)
    <3>1. h \in Drivers
      BY <1>1 DEF Sound
    <3> HIDE DEF h
    <3>2. \A x : Counted(h, x).index = h.index /\ Counted(h, x).enabled = h.enabled
      BY <3>1 DEF Counted, Drivers
    <3> QED BY <3>2 DEF h
  <2> QED BY <1>1, <2>1, WrappedType, CountedSound
<1> HIDE DEF c
<1>3. /\ Sound(d) /\ d.step = driver.step /\ d.enabled = driver.enabled
      /\ Kept(c, d)
  <2>1. Kept(c, d) /\ d.enabled = c.enabled
    BY <1>2 DEF Referenced, Kept, Sound, Drivers
  <2> QED BY <1>2, <2>1, ReferencedSound
<1>4. d \in Drivers /\ d.index = driver.index
  BY <1>2, <1>3 DEF Sound, Kept
<1> HIDE DEF d
<1>5. /\ Kept(d, Faulted(d)) /\ Faulted(d).step = "ERROR"
      /\ ~Faulted(d).enabled
  BY <1>4 DEF Faulted, Kept, Drivers
<1>6. /\ Kept(d, Confirmed(d)) /\ Confirmed(d).enabled
      /\ Confirmed(d).step = IF d.index >= Parameters
                             THEN "READY" ELSE "WRITE_PARAMETER"
  BY <1>4 DEF Confirmed, Kept, Drivers
<1>7. LET e == Debounced(d, f.run) IN
      Fresh(e) \/ (Kept(d, e) /\ e.step = d.step /\ e.enabled = d.enabled)
  <2>1. LET e == [d EXCEPT !.nonRun = 0] IN
        Kept(d, e) /\ e.step = d.step /\ e.enabled = d.enabled
    BY <1>4 DEF Kept, Drivers
  <2>2. LET e == [d EXCEPT !.nonRun = @ + 1] IN
        Kept(d, e) /\ e.step = d.step /\ e.enabled = d.enabled
    BY <1>4 DEF Kept, Drivers
  <2> QED BY <1>4, <2>1, <2>2, RestartFresh DEF Debounced
<1>8. \A e : Kept(d, e) => Kept(c, e)
  BY <1>3 DEF Kept
<1>9. Feedback(f) = IF f.fault THEN Faulted(d)
        ELSE IF d.step = "WAIT_FOR_ENABLE"
          THEN IF f.run THEN Confirmed(d) ELSE d
        ELSE IF d.step = "READY" /\ ~UsesPosition THEN Debounced(d, f.run)
        ELSE d
  BY DEF Feedback, d, c
<1>10. CASE f.fault
  BY <1>5, <1>8, <1>9, <1>10 DEF c
<1>11. CASE ~f.fault /\ d.step = "WAIT_FOR_ENABLE" /\ f.run
  BY <1>3, <1>4, <1>6, <1>8, <1>9, <1>11 DEF c
<1>12. CASE ~f.fault /\ d.step = "READY" /\ ~UsesPosition
  BY <1>3, <1>7, <1>8, <1>9, <1>12 DEF c
<1>13. CASE /\ ~f.fault /\ ~(d.step = "WAIT_FOR_ENABLE" /\ f.run)
            /\ ~(d.step = "READY" /\ ~UsesPosition)
  BY <1>3, <1>9, <1>13 DEF c
<1> QED BY <1>10, <1>11, <1>12, <1>13

\* An answer advances the initialisation only in the step that waits for it.
LEMMA ResponseMoves ==
  ASSUME Sound(driver), NEW a \in Answers
  PROVE  LET e == Response(a) IN
         \/ MovesTo(driver, e)
         \/ /\ driver.step = "WAIT_FOR_STARTUP_POSITION" /\ a.type = "POSITION"
            /\ e.step = "WRITE_STARTUP_HOLD" /\ e.hold = a.value
            /\ e.index = driver.index /\ e.enabled = driver.enabled
            /\ e.known = driver.known /\ e.last = driver.last
            /\ IF driver.known THEN e.count = a.value ELSE e.aligning
         \/ /\ driver.step = "WAIT_FOR_STARTUP_HOLD" /\ a.type = "HOLD"
            /\ a.value = driver.hold /\ e.step = "ENABLE"
            /\ Kept(driver, e) /\ e.enabled = driver.enabled
         \/ /\ driver.step = "WAIT_FOR_READ" /\ a.type = "PARAMETER"
            /\ a.index = driver.index /\ a.match
            /\ e.index = driver.index + 1 /\ e.enabled = driver.enabled
            /\ Kept([driver EXCEPT !.index = @ + 1], e)
            /\ e.step = IF e.index >= Parameters
                 THEN IF driver.enabled THEN "READY" ELSE "ENABLE"
                 ELSE IF driver.enabled THEN "WRITE_PARAMETER"
                 ELSE IF UsesPosition /\ driver.index = 0
                   THEN "READ_STARTUP_POSITION" ELSE "ENABLE"
<1> DEFINE d == Heard(driver)
<1>1. /\ d \in Drivers /\ Kept(driver, d) /\ d.enabled = driver.enabled
      /\ d.step = driver.step /\ driver \in Drivers
  BY DEF Heard, Kept, Sound, Drivers
<1> HIDE DEF d
<1>2. MovesTo(driver, d)
  BY <1>1, StaysMoves
<1>3. d.step \in AnswerSteps => MovesTo(driver, Retry(d))
  <2>1. d.step \in AnswerSteps => MovesTo(d, Retry(d))
    BY <1>1, RetryMoves
  <2> QED BY <1>1, <2>1 DEF MovesTo, Kept
<1>4. CASE d.step = "WAIT_FOR_STARTUP_POSITION"
  <2>1. LET e == PositionRead(d, a.value) IN
        /\ e.step = "WRITE_STARTUP_HOLD" /\ e.hold = a.value
        /\ e.index = d.index /\ e.enabled = d.enabled
        /\ e.known = d.known /\ e.last = d.last
        /\ IF d.known THEN e.count = a.value ELSE e.aligning
    BY <1>1 DEF PositionRead, Drivers
  <2>2. Response(a) = IF a.type # "POSITION" THEN d
                      ELSE IF a.ok THEN PositionRead(d, a.value) ELSE Retry(d)
    BY <1>4 DEF Response, d
  <2>3. CASE a.type = "POSITION" /\ a.ok
    <3>1. Response(a) = PositionRead(d, a.value)
      BY <2>2, <2>3
    <3> QED BY <1>1, <1>4, <2>1, <2>3, <3>1 DEF Kept
  <2>4. CASE ~(a.type = "POSITION" /\ a.ok)
    BY <1>2, <1>3, <1>4, <2>2, <2>4
  <2> QED BY <2>3, <2>4
<1>5. CASE d.step = "WAIT_FOR_STARTUP_HOLD"
  <2>1. LET e == [d EXCEPT !.retries = 0, !.step = "ENABLE"] IN
        Kept(d, e) /\ e.enabled = d.enabled /\ e.step = "ENABLE"
    BY <1>1 DEF Kept, Drivers
  <2>2. Response(a) = IF a.type # "HOLD" THEN d
                      ELSE IF a.ok /\ a.value = d.hold
                      THEN [d EXCEPT !.retries = 0, !.step = "ENABLE"]
                      ELSE Retry(d)
    BY <1>5 DEF Response, d
  <2>3. CASE a.type = "HOLD" /\ a.ok /\ a.value = d.hold
    BY <1>1, <1>5, <2>1, <2>2, <2>3 DEF Kept
  <2>4. CASE ~(a.type = "HOLD" /\ a.ok /\ a.value = d.hold)
    BY <1>2, <1>3, <1>5, <2>2, <2>4
  <2> QED BY <2>3, <2>4
<1>6. CASE d.step = "WAIT_FOR_READ"
  <2>1. LET e == Verified(d) IN
        /\ e.index = d.index + 1 /\ e.enabled = d.enabled
        /\ e.hold = d.hold /\ e.known = d.known /\ e.aligning = d.aligning
        /\ e.count = d.count /\ e.last = d.last
        /\ e.step = IF d.index + 1 >= Parameters
             THEN IF d.enabled THEN "READY" ELSE "ENABLE"
             ELSE IF d.enabled THEN "WRITE_PARAMETER"
             ELSE IF UsesPosition /\ d.index = 0
               THEN "READ_STARTUP_POSITION" ELSE "ENABLE"
    BY <1>1 DEF Verified, Drivers
  <2>2. Response(a) = IF ~a.ok THEN Retry(d)
                      ELSE IF a.type # "PARAMETER" THEN d
                      ELSE IF a.index # d.index THEN d
                      ELSE IF a.match THEN Verified(d) ELSE Retry(d)
    BY <1>6 DEF Response, d
  <2>3. CASE a.ok /\ a.type = "PARAMETER" /\ a.index = d.index /\ a.match
    <3>1. Response(a) = Verified(d)
      BY <2>2, <2>3
    <3>2. Kept([driver EXCEPT !.index = @ + 1], Verified(d))
      BY <1>1, <2>1 DEF Kept, Drivers
    <3> QED BY <1>1, <1>6, <2>1, <2>3, <3>1, <3>2 DEF Kept
  <2>4. CASE ~(a.ok /\ a.type = "PARAMETER" /\ a.index = d.index /\ a.match)
    BY <1>2, <1>3, <1>6, <2>2, <2>4
  <2> QED BY <2>3, <2>4
<1>7. CASE d.step \notin {"WAIT_FOR_STARTUP_POSITION", "WAIT_FOR_STARTUP_HOLD",
                          "WAIT_FOR_READ"}
  <2>1. Response(a) = d
    BY <1>7 DEF Response, d
  <2> QED BY <1>2, <2>1
<1> QED BY <1>4, <1>5, <1>6, <1>7
-----------------------------------------------------------------------------
(***************************************************************************)
(* What each action does to the motor and to the frames on their way.      *)
(***************************************************************************)
Pending == {inbox[i] : i \in 1..Len(inbox)}

LEMMA PendingAppend ==
  ASSUME inbox \in Seq(Answers), NEW a \in Answers, inbox' = Append(inbox, a)
  PROVE  /\ Pending' = Pending \cup {a}
         /\ Len(inbox') = Len(inbox) + 1 /\ inbox'[Len(inbox) + 1] = a
         /\ \A i \in 1..Len(inbox) : inbox'[i] = inbox[i]
<1>1. /\ Len(inbox') = Len(inbox) + 1 /\ Len(inbox) \in Nat
      /\ \A i \in 1..Len(inbox) : inbox'[i] = inbox[i]
      /\ inbox'[Len(inbox) + 1] = a
  OBVIOUS
<1>2. 1..(Len(inbox) + 1) = (1..Len(inbox)) \cup {Len(inbox) + 1}
  BY <1>1
<1> QED BY <1>1, <1>2 DEF Pending

LEMMA PendingTail ==
  ASSUME inbox \in Seq(Answers), inbox # <<>>, inbox' = Tail(inbox)
  PROVE  /\ Head(inbox) \in Pending /\ Head(inbox) = inbox[1]
         /\ Pending' \subseteq Pending
         /\ Pending \subseteq Pending' \cup {Head(inbox)}
         /\ Len(inbox') = Len(inbox) - 1
         /\ \A i \in 1..Len(inbox') : inbox'[i] = inbox[i + 1]
<1>1. /\ Len(inbox) \in Nat /\ Len(inbox) > 0 /\ Len(inbox') = Len(inbox) - 1
      /\ \A i \in 1..Len(inbox') : inbox'[i] = inbox[i + 1]
      /\ Head(inbox) = inbox[1]
  OBVIOUS
<1>2. 1 \in 1..Len(inbox) /\ \A i \in 1..Len(inbox') : i + 1 \in 1..Len(inbox)
  BY <1>1
<1>3. \A i \in 1..Len(inbox) : i = 1 \/ i - 1 \in 1..Len(inbox')
  BY <1>1
<1>4. \A i \in 1..Len(inbox) : i # 1 => inbox[i] = inbox'[i - 1]
  BY <1>1, <1>3
<1>5. Head(inbox) \in Pending
  BY <1>1, <1>2 DEF Pending
<1>6. Pending' \subseteq Pending
  <2> SUFFICES ASSUME NEW a \in Pending' PROVE a \in Pending
    OBVIOUS
  <2>1. PICK i \in 1..Len(inbox') : a = inbox'[i]
    BY DEF Pending
  <2>2. i + 1 \in 1..Len(inbox) /\ a = inbox[i + 1]
    BY <1>1, <1>2, <2>1
  <2> QED BY <2>2 DEF Pending
<1>7. Pending \subseteq Pending' \cup {Head(inbox)}
  <2> SUFFICES ASSUME NEW a \in Pending, a # Head(inbox) PROVE a \in Pending'
    OBVIOUS
  <2>1. PICK i \in 1..Len(inbox) : a = inbox[i]
    BY DEF Pending
  <2>2. i - 1 \in 1..Len(inbox') /\ a = inbox'[i - 1]
    BY <1>1, <1>3, <1>4, <2>1
  <2> QED BY <2>2 DEF Pending
<1> QED BY <1>1, <1>5, <1>6, <1>7

\* A frame says what holds of the motor m that sends it.
TrueOf(a, m) ==
  /\ a.type # "FAULT"
  /\ a.type = "PARAMETER" /\ a.match => a.index + 1 \in m.params
  /\ a.type = "POSITION" => a.value = m.pos
  /\ a.type = "HOLD" => a.value = m.ref
  /\ a.type = "FEEDBACK" => a.pos = m.pos /\ a.run = m.run

LEMMA StatusTrue ==
  ASSUME NEW x \in Motors
  PROVE  TrueOf(Status(x), x) /\ Status(x).type = "FEEDBACK"
BY DEF TrueOf, Status, Motors

LEMMA AnswersTrue ==
  ASSUME NEW x \in Motors, NEW d \in Drivers, NEW a \in AnswersTo(x, d.step, d)
  PROVE  TrueOf(a, x) /\ (a.type = "HOLD" => d.step = "READ_STARTUP_HOLD")
<1> DEFINE oks == IF Losses THEN BOOLEAN ELSE {TRUE}
           match == d.index + 1 \in x.params
<1>1. CASE d.step = "READ_PARAMETER"
  <2>1. a \in [type : {"PARAMETER"}, index : {d.index}, ok : oks, match : {match}]
    BY <1>1 DEF AnswersTo
  <2>2. a.type = "PARAMETER" /\ a.index = d.index /\ a.match = match
    <3> HIDE DEF oks, match
    <3> QED BY <2>1
  <2> QED BY <2>2 DEF TrueOf
<1>2. CASE d.step = "READ_STARTUP_POSITION"
  <2>1. a \in [type : {"POSITION"}, ok : oks, value : {x.pos}]
    BY <1>2 DEF AnswersTo
  <2> QED BY <2>1 DEF TrueOf
<1>3. CASE d.step = "READ_STARTUP_HOLD"
  <2>1. a \in [type : {"HOLD"}, ok : oks, value : {x.ref}]
    BY <1>3 DEF AnswersTo
  <2> QED BY <1>3, <2>1 DEF TrueOf
<1>4. CASE d.step \notin {"READ_PARAMETER", "READ_STARTUP_POSITION",
                          "READ_STARTUP_HOLD"}
  BY <1>4, StatusTrue DEF AnswersTo
<1> QED BY <1>1, <1>2, <1>3, <1>4

\* What an initialisation frame changes in the motor.
LEMMA ObeysEffect ==
  ASSUME NEW x \in Motors, NEW d, Sound(d)
  PROVE  LET y == Obeys(x, d.step, d) IN
         /\ y.on = x.on /\ y.pos = x.pos /\ y.fault = x.fault /\ y.moved = x.moved
         /\ x.params \subseteq y.params
         /\ d.step # "ENABLE" => y.run = x.run
         /\ d.step = "ENABLE" => y.run = ~x.fault /\ y.ref = x.ref
         /\ UsesPosition /\ d.step # "WRITE_STARTUP_HOLD" => y.ref = x.ref
         /\ d.step = "WRITE_STARTUP_HOLD" => y.ref = d.hold
<1>1. CASE d.step = "WRITE_PARAMETER"
  <2> DEFINE p == x.params \cup {d.index + 1}
             r == IF ~UsesPosition /\ d.index = 1 THEN 0 ELSE x.ref
  <2>1. Obeys(x, d.step, d) = [x EXCEPT !.params = p, !.ref = r]
    BY <1>1 DEF Obeys
  <2>2. x.params \subseteq p /\ (UsesPosition => r = x.ref)
    OBVIOUS
  <2> HIDE DEF p, r
  <2> QED BY <1>1, <2>1, <2>2 DEF Motors
<1>2. CASE d.step = "WRITE_STARTUP_HOLD"
  BY <1>2 DEF Obeys, Motors
<1>3. CASE d.step = "ENABLE"
  BY <1>3 DEF Obeys, Motors
<1>4. CASE d.step \notin {"WRITE_PARAMETER", "WRITE_STARTUP_HOLD", "ENABLE"}
  BY <1>4 DEF Obeys
<1> QED BY <1>1, <1>2, <1>3, <1>4

\* A period of the command timer: the motor is enabled only in the phase of
\* ENABLE, its reference is written only by the hold and by a READY driver, and
\* at most one true answer joins the queue.
LEMMA TickEffect ==
  ASSUME TypeOK, Sound(driver), NEW turn \in BOOLEAN, Tick(turn)
  PROVE  /\ kind' = kind
         /\ MovesTo(driver, driver') \/ Fresh(driver')
         /\ motor'.on = motor.on /\ motor'.pos = motor.pos
         /\ motor'.fault = motor.fault /\ motor'.moved = motor.moved
         /\ motor.params \subseteq motor'.params
         /\ motor'.run # motor.run =>
              motor.on /\ driver.step \in EnableSteps /\ motor'.run = ~motor.fault
                /\ motor'.ref = motor.ref
         /\ UsesPosition /\ motor'.ref # motor.ref =>
              \/ driver.step = "READY"
              \/ driver.step \in HoldSteps /\ motor'.ref = driver.hold
         /\ \/ inbox' = inbox
            \/ /\ Len(inbox) < MaxInbox /\ (Prompt => inbox = <<>>)
               /\ motor.on
               /\ \E a \in Answers :
                    /\ inbox' = Append(inbox, a) /\ TrueOf(a, motor')
                    /\ a.type = "HOLD" => driver.step \in HoldSteps
<1> DEFINE d == TimerDriver(turn)
           e == IF turn THEN Sent(d) ELSE d
           sends == turn /\ d.step \in SendSteps
<1>1. /\ Sound(d)
      /\ MovesTo(driver, d) \/ Fresh(d)
      /\ MovesTo(driver, e) \/ Fresh(e)
  BY TimerMoves
<1>2. /\ Prompt => inbox = <<>>
      /\ driver' = e /\ kind' = kind
      /\ \/ UNCHANGED <<motor, inbox>>
         \/ /\ motor.on /\ sends
            /\ motor' = Obeys(motor, d.step, d)
            /\ \E answer \in AnswersTo(motor', d.step, d) : Queue(answer)
         \/ /\ motor.on
            /\ \E ref \in TargetFrame(d) :
                 motor' = [motor EXCEPT !.ref = ref] /\ Queue(Status(motor'))
  BY DEF Tick, TimerDriver
<1> HIDE DEF d, e
<1>3. /\ motor \in Motors /\ inbox \in Seq(Answers) /\ d \in Drivers
      /\ motor' \in Motors
  BY <1>1, TickSound DEF TypeOK, Sound
<1>4. CASE UNCHANGED <<motor, inbox>>
  BY <1>1, <1>2, <1>4
<1>5. CASE /\ motor.on /\ sends
           /\ motor' = Obeys(motor, d.step, d)
           /\ \E answer \in AnswersTo(motor', d.step, d) : Queue(answer)
  <2>1. /\ d.step = "ENABLE" => driver.step \in EnableSteps
        /\ d.step \in {"WRITE_STARTUP_HOLD", "READ_STARTUP_HOLD"}
             => driver.step \in HoldSteps /\ d.hold = driver.hold
    BY <1>1, <1>5 DEF MovesTo, Kept, Fresh, TableSteps, PositionSteps, HoldSteps,
                      EnableSteps
  <2>2. PICK a \in AnswersTo(motor', d.step, d) : Queue(a)
    BY <1>5
  <2>3. /\ a \in Answers /\ TrueOf(a, motor')
        /\ a.type = "HOLD" => d.step = "READ_STARTUP_HOLD"
    BY <1>3, <2>2, AnswersType, AnswersTrue
  <2>4. LET y == motor' IN
        /\ y.on = motor.on /\ y.pos = motor.pos /\ y.fault = motor.fault
        /\ y.moved = motor.moved /\ motor.params \subseteq y.params
        /\ d.step # "ENABLE" => y.run = motor.run
        /\ d.step = "ENABLE" => y.run = ~motor.fault /\ y.ref = motor.ref
        /\ UsesPosition /\ d.step # "WRITE_STARTUP_HOLD" => y.ref = motor.ref
        /\ d.step = "WRITE_STARTUP_HOLD" => y.ref = d.hold
    <3>1. motor' = Obeys(motor, d.step, d)
      BY <1>5
    <3> QED BY <1>1, <1>3, <3>1, ObeysEffect
  <2>5. inbox' = inbox \/ (Len(inbox) < MaxInbox /\ inbox' = Append(inbox, a))
    BY <2>2 DEF Queue
  <2> QED BY <1>1, <1>2, <1>5, <2>1, <2>3, <2>4, <2>5
<1>6. CASE /\ motor.on
           /\ \E ref \in TargetFrame(d) :
                motor' = [motor EXCEPT !.ref = ref] /\ Queue(Status(motor'))
  <2>1. PICK ref \in TargetFrame(d) :
          motor' = [motor EXCEPT !.ref = ref] /\ Queue(Status(motor'))
    BY <1>6
  <2>2. d.step = "READY" /\ driver.step = "READY"
    <3>1. d.step = "READY"
      BY <2>1 DEF TargetFrame
    <3> QED BY <1>1, <3>1 DEF MovesTo, Fresh, TableSteps, PositionSteps,
                              HoldSteps, EnableSteps
  <2>3. /\ motor'.on = motor.on /\ motor'.pos = motor.pos
        /\ motor'.fault = motor.fault /\ motor'.moved = motor.moved
        /\ motor'.params = motor.params /\ motor'.run = motor.run
    BY <1>3, <2>1 DEF Motors
  <2>4. /\ Status(motor') \in Answers /\ TrueOf(Status(motor'), motor')
        /\ Status(motor').type = "FEEDBACK"
    BY <1>3, StatusType, StatusTrue
  <2>5. inbox' = inbox
        \/ (Len(inbox) < MaxInbox /\ inbox' = Append(inbox, Status(motor')))
    BY <2>1 DEF Queue
  <2> QED BY <1>1, <1>2, <1>6, <2>2, <2>3, <2>4, <2>5
<1> QED BY <1>2, <1>4, <1>5, <1>6

\* A request changes the target and its coordinates only.
LEMMA RequestsKeep ==
  ASSUME Sound(driver), Requests
  PROVE  /\ UNCHANGED <<kind, motor, inbox>>
         /\ Kept(driver, driver') /\ driver'.step = driver.step
         /\ driver'.enabled = driver.enabled
<1>1. driver \in Drivers
  BY DEF Sound
<1>2. CASE SetTarget
  BY <1>1, <1>2 DEF SetTarget, Kept, Drivers
<1>3. CASE SetCurrentPosition
  BY <1>1, <1>3 DEF SetCurrentPosition, Kept, Drivers
<1> QED BY <1>2, <1>3 DEF Requests

LEMMA CountedEffect ==
  ASSUME NEW d \in Drivers, NEW w \in Int
  PROVE  LET c == Counted(d, w) IN
         /\ c.index = d.index /\ c.hold = d.hold /\ c.known /\ c.last = w
         /\ d.known => c.count = d.count + Unwrapped(w - d.last)
         /\ ~d.known => c.count = IF d.aligning THEN d.hold ELSE w
BY DEF Counted, Drivers

\* The frame that the driver takes from the queue, and where it leads.
LEMMA ReceiveEffect ==
  ASSUME TypeOK, Sound(driver), Receive
  PROVE  LET f == Head(inbox) IN
         /\ UNCHANGED <<kind, motor>> /\ inbox # <<>> /\ inbox' = Tail(inbox)
         /\ f \in Answers
         /\ f.type = "FAULT" =>
              Kept(driver, driver') /\ driver'.step = "ERROR" /\ ~driver'.enabled
         /\ f.type = "FEEDBACK" =>
              /\ f.pos \in Int /\ f.run \in BOOLEAN
              /\ driver' = Feedback(f)
         /\ f.type \notin {"FAULT", "FEEDBACK"} => driver' = Response(f)
<1> DEFINE f == Head(inbox)
<1>1. inbox \in Seq(Answers) /\ inbox # <<>> /\ f \in Answers
  BY DEF TypeOK, Receive
<1>2. f.type = "FEEDBACK" => f.pos \in Int /\ f.run \in BOOLEAN
  BY <1>1 DEF Answers
<1>3. LET e == Faulted(Heard(driver)) IN
      Kept(driver, e) /\ e.step = "ERROR" /\ ~e.enabled
  BY DEF Faulted, Heard, Kept, Sound, Drivers
<1>4. driver' = CASE f.type = "FEEDBACK" -> Feedback(f)
                  [] f.type = "FAULT" -> Faulted(Heard(driver))
                  [] f.type \notin {"FEEDBACK", "FAULT"} -> Response(f)
  BY DEF Receive
<1> QED BY <1>1, <1>2, <1>3, <1>4 DEF Receive

\* What the motor does of itself.
Registers == <<motor.on, motor.run, motor.params, motor.ref>>

LEMMA MotorEffect ==
  ASSUME TypeOK, MotorSteps
  PROVE  /\ UNCHANGED <<kind, driver>>
         /\ \/ /\ inbox' = Append(inbox, Status(motor)) /\ Registers' = Registers
               /\ motor'.fault = motor.fault /\ motor'.pos = motor.pos
            \/ /\ UsesPosition /\ ~motor.moved /\ motor'.moved
               /\ ShaftMoves \/ (driver.step = "READY" /\ inbox = <<>>)
               /\ motor'.pos \in {motor.pos - 1, motor.pos + 1}
               /\ Registers' = Registers /\ motor'.fault = motor.fault
               /\ inbox' = inbox
            \/ /\ inbox' = Append(inbox, [type |-> "FAULT"]) /\ motor'.fault
               /\ ~motor'.run /\ motor'.on = motor.on /\ motor'.params = motor.params
               /\ motor'.ref = motor.ref /\ motor'.pos = motor.pos
               /\ motor'.moved = motor.moved
            \/ /\ inbox' = inbox /\ Registers' = Registers /\ ~motor'.fault
               /\ motor'.pos = motor.pos /\ motor'.moved = motor.moved
            \/ /\ inbox' = inbox /\ ~motor'.on /\ ~motor'.run /\ ~motor'.fault
               /\ motor'.pos = motor.pos /\ motor'.moved = motor.moved
            \/ /\ LongOutages => driver.index = 0 /\ ~driver.enabled /\ inbox = <<>>
               /\ inbox' = inbox /\ motor'.run = motor.run
               /\ motor'.fault = motor.fault /\ motor'.pos = motor.pos
               /\ motor'.moved = motor.moved
<1>1. motor \in Motors
  BY DEF TypeOK
<1>2. CASE Report
  BY <1>1, <1>2 DEF Report, Registers, Motors
<1>3. CASE ShaftTurns
  BY <1>1, <1>3 DEF ShaftTurns, Registers, Motors
<1>4. CASE FaultOccurs
  BY <1>1, <1>4 DEF FaultOccurs, Motors
<1>5. CASE FaultClears
  BY <1>1, <1>5 DEF FaultClears, Registers, Motors
<1>6. CASE PowerFails
  BY <1>1, <1>6 DEF PowerFails, Motors
<1>7. CASE PowerReturns
  BY <1>1, <1>7 DEF PowerReturns, Motors
<1> QED BY <1>2, <1>3, <1>4, <1>5, <1>6, <1>7 DEF MotorSteps
-----------------------------------------------------------------------------
(***************************************************************************)
(* READY is complete.  What the driver has verified, and what the answers  *)
(* on their way confirm, is set in the motor; and when a motor the driver  *)
(* takes to be enabled does not run, a fault is on its way, queued behind  *)
(* every feedback that still says RUN.                                     *)
(***************************************************************************)
Written ==
  /\ motor.on =>
       /\ 1..driver.index \subseteq motor.params
       /\ \A a \in Pending : a.type = "PARAMETER" /\ a.match
                               => a.index + 1 \in motor.params
  /\ driver.step = "READY" => driver.index >= Parameters

FaultAfter(i) == \E j \in (i + 1)..Len(inbox) : inbox[j].type = "FAULT"

Running ==
  /\ motor.fault => ~motor.run
  /\ motor.on /\ ~motor.run =>
       /\ driver.enabled => FaultAfter(0)
       /\ \A i \in 1..Len(inbox) : inbox[i].type = "FEEDBACK" /\ inbox[i].run
                                     => FaultAfter(i)

CInv == IInv /\ Written /\ Running

LEMMA InitComplete == Init => Written /\ Running
<1> SUFFICES ASSUME Init PROVE Written /\ Running
  OBVIOUS
<1>1. /\ driver.index = 0 /\ driver.step = "WRITE_PARAMETER" /\ ~driver.enabled
      /\ inbox = <<>> /\ ~motor.fault
  BY DEF Init
<1>2. Pending = {} /\ Len(inbox) = 0 /\ 1..driver.index = {}
  BY <1>1 DEF Pending
<1> QED BY <1>1, <1>2 DEF Written, Running

\* A frame that joins the queue leaves the order of the others.
LEMMA FaultAfterAppend ==
  ASSUME inbox \in Seq(Answers), NEW a \in Answers, inbox' = Append(inbox, a)
  PROVE  /\ \A i \in 0..Len(inbox) : FaultAfter(i) => FaultAfter(i)'
         /\ a.type = "FAULT" => \A i \in 0..Len(inbox) : FaultAfter(i)'
<1>1. /\ Len(inbox') = Len(inbox) + 1 /\ inbox'[Len(inbox) + 1] = a
      /\ \A i \in 1..Len(inbox) : inbox'[i] = inbox[i]
      /\ Len(inbox) \in Nat
  BY PendingAppend
<1> QED BY <1>1 DEF FaultAfter

LEMMA FaultAfterTail ==
  ASSUME inbox \in Seq(Answers), inbox # <<>>, inbox' = Tail(inbox),
         NEW i \in 0..Len(inbox')
  PROVE  FaultAfter(i + 1) => FaultAfter(i)'
<1> SUFFICES ASSUME FaultAfter(i + 1) PROVE FaultAfter(i)'
  OBVIOUS
<1>1. /\ Len(inbox') = Len(inbox) - 1 /\ Len(inbox) \in Nat
      /\ \A k \in 1..Len(inbox') : inbox'[k] = inbox[k + 1]
  BY PendingTail
<1>2. PICK j \in (i + 2)..Len(inbox) : inbox[j].type = "FAULT"
  BY DEF FaultAfter
<1>3. j - 1 \in (i + 1)..Len(inbox') /\ inbox'[j - 1] = inbox[j]
  BY <1>1, <1>2
<1> QED BY <1>2, <1>3 DEF FaultAfter

LEMMA WrittenNext ==
  ASSUME LongOutages = TRUE, IInv, Written, [Next]_vars
  PROVE  Written'
<1>1. TypeOK /\ Sound(driver) /\ driver \in Drivers /\ driver.index \in Nat
      /\ inbox \in Seq(Answers)
  BY DEF IInv, TypeOK, Sound, Drivers
<1>2. ASSUME NEW turn \in BOOLEAN, Tick(turn) PROVE Written'
  <2>1. /\ MovesTo(driver, driver') \/ Fresh(driver')
        /\ motor'.on = motor.on /\ motor.params \subseteq motor'.params
        /\ \/ inbox' = inbox
           \/ \E a \in Answers : inbox' = Append(inbox, a) /\ TrueOf(a, motor')
    BY <1>1, <1>2, TickEffect
  <2>2. /\ driver'.index = driver.index \/ 1..driver'.index = {}
        /\ driver'.step = "READY"
             => driver.step = "READY" /\ driver'.index = driver.index
    BY <2>1 DEF MovesTo, Kept, Fresh, TableSteps, PositionSteps, HoldSteps,
                EnableSteps
  <2>3. CASE inbox' = inbox
    <3>1. Pending' = Pending
      BY <2>3 DEF Pending
    <3> QED BY <2>1, <2>2, <3>1 DEF Written
  <2>4. CASE \E a \in Answers : inbox' = Append(inbox, a) /\ TrueOf(a, motor')
    <3>1. PICK a \in Answers : inbox' = Append(inbox, a) /\ TrueOf(a, motor')
      BY <2>4
    <3>2. Pending' = Pending \cup {a}
      BY <1>1, <3>1, PendingAppend
    <3> QED BY <2>1, <2>2, <3>1, <3>2 DEF Written, TrueOf
  <2> QED BY <2>1, <2>3, <2>4
<1>3. CASE Receive
  <2> DEFINE f == Head(inbox)
  <2>1. /\ motor' = motor /\ inbox # <<>> /\ inbox' = Tail(inbox) /\ f \in Answers
        /\ f.type = "FAULT" => Kept(driver, driver') /\ driver'.step = "ERROR"
        /\ f.type = "FEEDBACK" => /\ f.pos \in Int /\ f.run \in BOOLEAN
                                  /\ driver' = Feedback(f)
        /\ f.type \notin {"FAULT", "FEEDBACK"} => driver' = Response(f)
    BY <1>1, <1>3, ReceiveEffect
  <2>2. f \in Pending /\ Pending' \subseteq Pending
    BY <1>1, <2>1, PendingTail
  <2>3. /\ \/ driver'.index = driver.index \/ 1..driver'.index = {}
           \/ /\ driver'.index = driver.index + 1
              /\ f.type = "PARAMETER" /\ f.match /\ f.index = driver.index
        /\ driver'.step = "READY" =>
             \/ driver'.index >= Parameters
             \/ driver.step = "READY" /\ driver'.index = driver.index
    <3>1. CASE f.type = "FAULT"
      BY <2>1, <3>1 DEF Kept
    <3>2. CASE f.type = "FEEDBACK"
      <4> DEFINE c == Counted(Heard(driver), Wrapped(f.pos))
      <4>1. c.index = driver.index
        <5>1. Heard(driver) \in Drivers /\ Heard(driver).index = driver.index
          BY <1>1, HeardSound DEF Sound
        <5> QED BY <2>1, <3>2, <5>1, WrappedType, CountedEffect
      <4>2. \/ Fresh(driver') /\ ~UsesPosition
            \/ /\ Kept(c, driver')
               /\ \/ driver'.step = "ERROR"
                  \/ driver'.step = driver.step
                  \/ driver'.step = IF driver.index >= Parameters
                                    THEN "READY" ELSE "WRITE_PARAMETER"
        BY <1>1, <2>1, <3>2, FeedbackMoves
      <4> HIDE DEF c
      <4> QED BY <4>1, <4>2 DEF Fresh, Kept, TableSteps
    <3>3. CASE f.type \notin {"FAULT", "FEEDBACK"}
      <4>1. driver' = Response(f)
        BY <2>1, <3>3
      <4>2. \/ MovesTo(driver, driver')
            \/ driver'.step \in {"WRITE_STARTUP_HOLD", "ENABLE"}
                 /\ driver'.index = driver.index
            \/ /\ f.type = "PARAMETER" /\ f.index = driver.index /\ f.match
               /\ driver'.index = driver.index + 1
               /\ driver'.step = "READY" => driver'.index >= Parameters
        BY <1>1, <2>1, <4>1, ResponseMoves DEF Kept
      <4> QED BY <4>2 DEF MovesTo, Kept, TableSteps, PositionSteps, HoldSteps,
                          EnableSteps
    <3> QED BY <3>1, <3>2, <3>3
  <2>4. motor.on /\ driver'.index = driver.index + 1 /\ f.type = "PARAMETER"
          /\ f.match /\ f.index = driver.index
          => 1..driver'.index \subseteq motor.params
    <3> SUFFICES ASSUME motor.on, driver'.index = driver.index + 1,
                        driver.index + 1 \in motor.params
                 PROVE  1..driver'.index \subseteq motor.params
      BY <2>2 DEF Written
    <3>1. 1..driver.index \subseteq motor.params
      BY DEF Written
    <3>2. 1..(driver.index + 1) = 1..driver.index \cup {driver.index + 1}
      BY <1>1
    <3> QED BY <3>1, <3>2
  <2> QED BY <2>1, <2>2, <2>3, <2>4 DEF Written
<1>4. CASE Requests
  <2>1. /\ UNCHANGED <<motor, inbox>> /\ driver'.index = driver.index
        /\ driver'.step = driver.step
    BY <1>1, <1>4, RequestsKeep DEF Kept
  <2> QED BY <2>1 DEF Written, Pending
<1>5. CASE MotorSteps
  <2>1. /\ driver' = driver
        /\ \/ /\ inbox' = inbox \/ (inbox' = Append(inbox, Status(motor)))
                   \/ (inbox' = Append(inbox, [type |-> "FAULT"]))
              /\ motor'.on = motor.on /\ motor'.params = motor.params
           \/ ~motor'.on /\ inbox' = inbox
           \/ driver.index = 0 /\ inbox = <<>> /\ inbox' = inbox
    BY <1>1, <1>5, MotorEffect DEF Registers
  <2>2. /\ Status(motor) \in Answers /\ Status(motor).type = "FEEDBACK"
        /\ [type |-> "FAULT"] \in Answers
    BY <1>1, StatusType, StatusTrue DEF TypeOK, Answers
  <2>3. \/ Pending' = Pending \/ Pending' = Pending \cup {Status(motor)}
        \/ Pending' = Pending \cup {[type |-> "FAULT"]}
    <3>1. inbox' = inbox => Pending' = Pending
      BY DEF Pending
    <3> QED BY <1>1, <2>1, <2>2, <3>1, PendingAppend
  <2>4. \A a : a = [type |-> "FAULT"] => a.type = "FAULT"
    OBVIOUS
  <2>5. inbox = <<>> => Pending = {}
    BY DEF Pending
  <2>6. driver.index = 0 => 1..driver.index = {}
    OBVIOUS
  <2>7. \A a \in Pending' : a.type = "PARAMETER" => a \in Pending
    BY <2>2, <2>3, <2>4
  <2>8. CASE motor'.on = motor.on /\ motor'.params = motor.params
    BY <2>1, <2>7, <2>8 DEF Written
  <2>9. CASE ~motor'.on
    BY <2>1, <2>9 DEF Written
  <2>10. CASE driver.index = 0 /\ inbox = <<>> /\ inbox' = inbox
    BY <2>1, <2>5, <2>6, <2>7, <2>10 DEF Written
  <2> QED BY <2>1, <2>8, <2>9, <2>10
<1>6. CASE UNCHANGED vars
  BY <1>6 DEF vars, Written, Pending
<1> QED BY <1>2, <1>3, <1>4, <1>5, <1>6 DEF Next, Period, PeriodOfAnother

LEMMA RunningNext ==
  ASSUME LongOutages = TRUE, IInv, Running, [Next]_vars
  PROVE  Running'
<1>1. TypeOK /\ Sound(driver) /\ motor \in Motors /\ inbox \in Seq(Answers)
      /\ Len(inbox) \in Nat
  BY DEF IInv, TypeOK
\* A frame joins the queue and nobody hears of it yet.
<1>2. ASSUME NEW a \in Answers, inbox' = Append(inbox, a),
             motor'.fault => ~motor'.run, driver'.enabled => driver.enabled,
             motor'.on /\ ~motor'.run =>
               \/ a.type = "FAULT"
               \/ motor.on /\ ~motor.run /\ ~(a.type = "FEEDBACK" /\ a.run)
      PROVE  Running'
  <2>1. /\ \A i \in 0..Len(inbox) : FaultAfter(i) => FaultAfter(i)'
        /\ a.type = "FAULT" => \A i \in 0..Len(inbox) : FaultAfter(i)'
    BY <1>1, <1>2, FaultAfterAppend
  <2>2. /\ Len(inbox') = Len(inbox) + 1 /\ inbox'[Len(inbox) + 1] = a
        /\ \A i \in 1..Len(inbox) : inbox'[i] = inbox[i]
    BY <1>1, <1>2, PendingAppend
  <2>3. ASSUME motor'.on, ~motor'.run, driver'.enabled
        PROVE  FaultAfter(0)'
    BY <1>1, <1>2, <2>1, <2>3 DEF Running
  <2>4. ASSUME motor'.on, ~motor'.run, NEW i \in 1..Len(inbox'),
               inbox'[i].type = "FEEDBACK", inbox'[i].run
        PROVE  FaultAfter(i)'
    <3>1. a.type = "FAULT" => a.type # "FEEDBACK"
      OBVIOUS
    <3>2. i # Len(inbox) + 1
      BY <1>2, <2>2, <2>4, <3>1
    <3>3. i \in 1..Len(inbox) /\ i \in 0..Len(inbox) /\ inbox'[i] = inbox[i]
      BY <1>1, <2>2, <3>2
    <3> QED BY <1>2, <2>1, <2>4, <3>3 DEF Running
  <2> QED BY <1>2, <2>3, <2>4 DEF Running
\* The queue stays as it is.
<1>3. ASSUME inbox' = inbox, motor'.fault => ~motor'.run,
             motor'.on /\ ~motor'.run =>
               \/ motor.on /\ ~motor.run /\ (driver'.enabled => driver.enabled)
               \/ ~driver'.enabled /\ inbox = <<>>
      PROVE  Running'
  <2>1. \A i : FaultAfter(i)' = FaultAfter(i)
    BY <1>3 DEF FaultAfter
  <2>2. inbox = <<>> => 1..Len(inbox) = {}
    BY <1>1
  <2> QED BY <1>3, <2>1, <2>2 DEF Running
<1>4. ASSUME NEW turn \in BOOLEAN, Tick(turn) PROVE Running'
  <2>1. /\ driver'.enabled => driver.enabled
        /\ motor'.on = motor.on /\ motor'.fault = motor.fault
        /\ motor'.run # motor.run => motor'.run = ~motor.fault
        /\ \/ inbox' = inbox
           \/ \E a \in Answers : inbox' = Append(inbox, a) /\ TrueOf(a, motor')
    <3>1. MovesTo(driver, driver') \/ Fresh(driver')
      BY <1>1, <1>4, TickEffect
    <3>2. driver'.enabled => driver.enabled
      BY <3>1 DEF MovesTo, Fresh
    <3> QED BY <1>1, <1>4, <3>2, TickEffect
  <2>2. motor.run \in BOOLEAN /\ motor.fault \in BOOLEAN /\ motor'.run \in BOOLEAN
    <3>1. motor' \in Motors
      BY <1>1, <1>4, TickSound DEF TypeOK
    <3> QED BY <1>1, <3>1 DEF Motors
  <2>3. /\ motor'.fault => ~motor'.run
        /\ ~motor'.run => ~motor.run
    BY <2>1, <2>2 DEF Running
  <2>4. CASE inbox' = inbox
    BY <1>3, <2>1, <2>3, <2>4
  <2>5. CASE \E a \in Answers : inbox' = Append(inbox, a) /\ TrueOf(a, motor')
    <3>1. PICK a \in Answers : inbox' = Append(inbox, a) /\ TrueOf(a, motor')
      BY <2>5
    <3>2. a.type = "FEEDBACK" => a.run = motor'.run
      BY <3>1 DEF TrueOf
    <3> QED BY <1>2, <2>1, <2>3, <3>1, <3>2
  <2> QED BY <2>1, <2>4, <2>5
<1>5. CASE Receive
  <2> DEFINE f == Head(inbox)
  <2>1. /\ motor' = motor /\ inbox # <<>> /\ inbox' = Tail(inbox) /\ f \in Answers
        /\ f.type = "FAULT" => ~driver'.enabled
        /\ f.type = "FEEDBACK" => /\ f.pos \in Int /\ f.run \in BOOLEAN
                                  /\ driver' = Feedback(f)
        /\ f.type \notin {"FAULT", "FEEDBACK"} => driver' = Response(f)
    BY <1>1, <1>5, ReceiveEffect
  <2>2. /\ f = inbox[1] /\ Len(inbox') = Len(inbox) - 1 /\ Len(inbox) > 0
        /\ \A i \in 1..Len(inbox') : inbox'[i] = inbox[i + 1]
    BY <1>1, <2>1, PendingTail
  <2>3. \A i \in 0..Len(inbox') : FaultAfter(i + 1) => FaultAfter(i)'
    BY <1>1, <2>1, FaultAfterTail
  <2>4. f.type # "FAULT" /\ FaultAfter(0) => FaultAfter(1)
    <3> SUFFICES ASSUME f.type # "FAULT", FaultAfter(0) PROVE FaultAfter(1)
      OBVIOUS
    <3>1. PICK j \in 1..Len(inbox) : inbox[j].type = "FAULT"
      BY DEF FaultAfter
    <3>2. j \in 2..Len(inbox)
      BY <1>1, <2>2, <3>1
    <3> QED BY <3>1, <3>2 DEF FaultAfter
  <2>5. driver'.enabled => \/ driver.enabled /\ f.type # "FAULT"
                           \/ f.type = "FEEDBACK" /\ f.run
    <3>1. CASE f.type = "FAULT"
      BY <2>1, <3>1
    <3>2. CASE f.type = "FEEDBACK"
      BY <1>1, <2>1, <3>2, FeedbackMoves DEF Fresh
    <3>3. CASE f.type \notin {"FAULT", "FEEDBACK"}
      <4>1. driver' = Response(f)
        BY <2>1, <3>3
      <4>2. MovesTo(driver, driver') \/ driver'.enabled = driver.enabled
        BY <1>1, <2>1, <4>1, ResponseMoves
      <4> QED BY <3>3, <4>2 DEF MovesTo
    <3> QED BY <3>1, <3>2, <3>3
  <2>6. ASSUME motor.on, ~motor.run, driver'.enabled
        PROVE  FaultAfter(0)'
    <3>1. FaultAfter(1)
      BY <1>1, <2>2, <2>4, <2>5, <2>6 DEF Running
    <3> QED BY <1>1, <2>2, <2>3, <3>1
  <2>7. ASSUME motor.on, ~motor.run, NEW i \in 1..Len(inbox'),
               inbox'[i].type = "FEEDBACK", inbox'[i].run
        PROVE  FaultAfter(i)'
    <3>1. i + 1 \in 1..Len(inbox) /\ inbox[i + 1].type = "FEEDBACK"
          /\ inbox[i + 1].run
      BY <1>1, <2>2, <2>7
    <3>2. FaultAfter(i + 1)
      BY <2>7, <3>1 DEF Running
    <3> QED BY <1>1, <2>2, <2>3, <3>2
  <2> QED BY <2>1, <2>6, <2>7 DEF Running
<1>6. CASE Requests
  <2>1. UNCHANGED <<motor, inbox>> /\ driver'.enabled = driver.enabled
    BY <1>1, <1>6, RequestsKeep
  <2> QED BY <1>3, <2>1 DEF Running
<1>7. CASE MotorSteps
  <2>1. driver' = driver
    BY <1>1, <1>7, MotorEffect
  <2>2. /\ Status(motor) \in Answers /\ TrueOf(Status(motor), motor)
        /\ Status(motor).type = "FEEDBACK" /\ Status(motor).run = motor.run
        /\ [type |-> "FAULT"] \in Answers
    BY <1>1, StatusType, StatusTrue DEF Answers, TrueOf
  <2>3. \/ /\ inbox' = Append(inbox, Status(motor)) /\ motor'.on = motor.on
           /\ motor'.run = motor.run /\ motor'.fault = motor.fault
        \/ inbox' = Append(inbox, [type |-> "FAULT"]) /\ ~motor'.run
        \/ /\ inbox' = inbox /\ motor'.on = motor.on /\ motor'.run = motor.run
           /\ motor'.fault = motor.fault \/ ~motor'.fault
        \/ inbox' = inbox /\ ~motor'.on /\ ~motor'.run
        \/ /\ inbox' = inbox /\ ~driver.enabled /\ inbox = <<>>
           /\ motor'.run = motor.run /\ motor'.fault = motor.fault
    BY <1>1, <1>7, MotorEffect DEF Registers
  <2>4. CASE /\ inbox' = Append(inbox, Status(motor)) /\ motor'.on = motor.on
             /\ motor'.run = motor.run /\ motor'.fault = motor.fault
    BY <1>2, <2>1, <2>2, <2>4 DEF Running
  <2>5. CASE inbox' = Append(inbox, [type |-> "FAULT"]) /\ ~motor'.run
    <3> DEFINE a == [type |-> "FAULT"]
    <3>1. a \in Answers /\ a.type = "FAULT"
      BY <2>2
    <3> HIDE DEF a
    <3>2. inbox' = Append(inbox, a)
      BY <2>5 DEF a
    <3> QED BY <1>2, <2>1, <2>5, <3>1, <3>2
  <2>6. CASE /\ inbox' = inbox /\ motor'.on = motor.on /\ motor'.run = motor.run
             /\ motor'.fault = motor.fault \/ ~motor'.fault
    BY <1>3, <2>1, <2>6 DEF Running
  <2>7. CASE inbox' = inbox /\ ~motor'.on /\ ~motor'.run
    BY <1>3, <2>1, <2>7
  <2>8. CASE /\ inbox' = inbox /\ ~driver.enabled /\ inbox = <<>>
             /\ motor'.run = motor.run /\ motor'.fault = motor.fault
    BY <1>3, <2>1, <2>8 DEF Running
  <2> QED BY <2>3, <2>4, <2>5, <2>6, <2>7, <2>8
<1>8. CASE UNCHANGED vars
  <2>1. UNCHANGED <<motor, inbox, driver>>
    BY <1>8 DEF vars
  <2> QED BY <1>3, <2>1 DEF Running
<1> QED BY <1>4, <1>5, <1>6, <1>7, <1>8 DEF Next, Period, PeriodOfAnother

\* READY means what it says: a motor that the driver takes to be READY runs,
\* with every parameter of the table set in it, once its frames are heard.  No
\* loss, refusal, retry, fault or restart and no length of the queue breaks
\* this; an outage that ends unnoticed does, so LongOutages is assumed.
THEOREM ReadyMotorIsComplete ==
  ASSUME LongOutages = TRUE
  PROVE  Spec => []ReadyIsComplete
<1>1. Init => CInv
  BY InitSound, InitComplete DEF CInv
<1>2. CInv /\ [Next]_vars => CInv'
  BY NextSound, WrittenNext, RunningNext DEF CInv
<1>3. CInv => ReadyIsComplete
  <2> SUFFICES ASSUME CInv, driver.step = "READY", motor.on, inbox = <<>>
               PROVE  motor.run /\ motor.params = 1..Parameters
    BY DEF ReadyIsComplete
  <2>1. /\ driver.index >= Parameters /\ driver.index <= Parameters
        /\ driver.index \in Nat /\ driver.enabled
        /\ motor.params \subseteq 1..Parameters
    BY DEF CInv, IInv, TypeOK, Written, Sound, InTable, HasReference, Motors, Drivers
  <2>2. motor.params = 1..Parameters
    <3>1. driver.index = Parameters
      BY <2>1, EduliteAssumption
    <3>2. 1..driver.index \subseteq motor.params
      BY DEF CInv, Written
    <3> QED BY <2>1, <3>1, <3>2
  <2>3. ~FaultAfter(0)
    <3>1. Len(inbox) = 0
      OBVIOUS
    <3>2. (0 + 1)..Len(inbox) = {}
      BY <3>1
    <3> QED BY <3>2 DEF FaultAfter
  <2> QED BY <2>1, <2>2, <2>3 DEF CInv, Running
<1> QED BY <1>1, <1>2, <1>3, PTL DEF Spec
-----------------------------------------------------------------------------
(***************************************************************************)
(* The stages of a position motor: it is enabled between its first and its *)
(* second parameter, and only by way of the startup position and its hold. *)
(***************************************************************************)
Staged ==
  UsesPosition =>
    /\ driver.step \in PositionSteps \cup HoldSteps \cup EnableSteps
         => driver.index >= 1
    /\ driver.step \in TableSteps => (driver.enabled <=> driver.index >= 1)

\* Positions on their way are those of the shaft, which rests until it is
\* READY and has no report to make.
AtPosition ==
  \A a \in Pending : /\ a.type = "POSITION" => a.value = motor.pos
                     /\ a.type = "FEEDBACK" => a.pos = motor.pos

\* Where a frame leads the driver of a position motor.
LEMMA ReceiveMoves ==
  ASSUME TypeOK, Sound(driver), Staged, UsesPosition, Receive
  PROVE  LET f == Head(inbox) IN
         \/ MovesTo(driver, driver') /\ f.type # "FEEDBACK"
         \/ /\ f.type = "FEEDBACK"
            /\ Kept(Counted(Heard(driver), Wrapped(f.pos)), driver')
            /\ \/ driver'.step = "ERROR" /\ ~driver'.enabled
               \/ driver'.step = driver.step /\ driver'.enabled = driver.enabled
               \/ /\ driver.step = "WAIT_FOR_ENABLE" /\ driver'.enabled
                  /\ driver'.step \in {"READY", "WRITE_PARAMETER"}
         \/ /\ driver.step = "WAIT_FOR_STARTUP_POSITION" /\ f.type = "POSITION"
            /\ driver'.step = "WRITE_STARTUP_HOLD" /\ driver'.hold = f.value
            /\ driver'.index = driver.index /\ driver'.enabled = driver.enabled
            /\ driver'.known = driver.known /\ driver'.last = driver.last
            /\ IF driver.known THEN driver'.count = f.value ELSE driver'.aligning
         \/ /\ driver.step = "WAIT_FOR_STARTUP_HOLD" /\ f.type = "HOLD"
            /\ f.value = driver.hold /\ driver'.step = "ENABLE"
            /\ Kept(driver, driver') /\ driver'.enabled = driver.enabled
         \/ /\ driver.step = "WAIT_FOR_READ" /\ f.type = "PARAMETER"
            /\ driver'.index = driver.index + 1
            /\ Kept([driver EXCEPT !.index = @ + 1], driver')
            /\ driver'.enabled = driver.enabled
            /\ IF driver.enabled THEN driver'.step \in {"READY", "WRITE_PARAMETER"}
                                 ELSE driver'.step = "READ_STARTUP_POSITION"
<1> DEFINE f == Head(inbox)
<1>1. /\ f \in Answers
      /\ f.type = "FAULT" =>
           Kept(driver, driver') /\ driver'.step = "ERROR" /\ ~driver'.enabled
      /\ f.type = "FEEDBACK" =>
           f.pos \in Int /\ f.run \in BOOLEAN /\ driver' = Feedback(f)
      /\ f.type \notin {"FAULT", "FEEDBACK"} => driver' = Response(f)
  BY ReceiveEffect
<1> HIDE DEF f
<1>2. CASE f.type = "FAULT"
  <2>1. MovesTo(driver, driver')
    BY <1>1, <1>2 DEF MovesTo
  <2>2. f.type # "FEEDBACK"
    BY <1>2
  <2> QED BY <2>1, <2>2 DEF f
<1>3. CASE f.type = "FEEDBACK"
  <2>1. LET e == Feedback(f)
            c == Counted(Heard(driver), Wrapped(f.pos))
        IN /\ Kept(c, e)
           /\ \/ e.step = "ERROR" /\ ~e.enabled
              \/ e.step = driver.step /\ e.enabled = driver.enabled
              \/ /\ driver.step = "WAIT_FOR_ENABLE" /\ e.enabled
                 /\ e.step \in {"READY", "WRITE_PARAMETER"}
    BY <1>1, <1>3, FeedbackMoves
  <2> QED BY <1>1, <1>3, <2>1 DEF f
<1>4. CASE f.type \notin {"FAULT", "FEEDBACK"}
  <2>1. driver' = Response(f)
    BY <1>1, <1>4
  <2>2. f.type # "FEEDBACK"
    BY <1>4
  <2>3. driver.step = "WAIT_FOR_READ"
          => /\ driver.enabled <=> driver.index >= 1
             /\ driver.index = 0 => ~(driver.index + 1 >= Parameters)
             /\ driver.index \in Nat
    BY EduliteAssumption DEF Staged, TableSteps, Sound, Drivers
  <2> QED BY <1>1, <2>1, <2>2, <2>3, ResponseMoves DEF f
<1> QED BY <1>2, <1>3, <1>4

LEMMA StagedNext ==
  ASSUME IInv, Staged, [Next]_vars
  PROVE  Staged'
<1>1. TypeOK /\ Sound(driver) /\ driver \in Drivers /\ driver.index \in Nat
  BY DEF IInv, Sound, Drivers
<1>2. kind' = kind
  <2>1. Receive \/ Requests \/ UNCHANGED vars => kind' = kind
    BY <1>1, RequestsKeep DEF Receive, vars
  <2>2. MotorSteps => kind' = kind
    BY <1>1, MotorEffect
  <2>3. ASSUME NEW turn \in BOOLEAN, Tick(turn) PROVE kind' = kind
    BY <2>3 DEF Tick
  <2> QED BY <2>1, <2>2, <2>3 DEF Next, Period, PeriodOfAnother
<1> SUFFICES ASSUME UsesPosition
             PROVE  /\ driver'.step \in PositionSteps \cup HoldSteps \cup EnableSteps
                         => driver'.index >= 1
                    /\ driver'.step \in TableSteps
                         => (driver'.enabled <=> driver'.index >= 1)
  BY <1>2 DEF Staged, UsesPosition
<1>3. ASSUME MovesTo(driver, driver') \/ Fresh(driver')
      PROVE  /\ driver'.step \in PositionSteps \cup HoldSteps \cup EnableSteps
                  => driver'.index >= 1
             /\ driver'.step \in TableSteps
                  => (driver'.enabled <=> driver'.index >= 1)
  BY <1>1, <1>3 DEF Staged, MovesTo, Kept, Fresh, TableSteps, PositionSteps,
                    HoldSteps, EnableSteps
<1>4. ASSUME NEW turn \in BOOLEAN, Tick(turn)
      PROVE  MovesTo(driver, driver') \/ Fresh(driver')
  BY <1>1, <1>4, TickEffect
<1>5. CASE Receive
  <2> DEFINE f == Head(inbox)
             c == Counted(Heard(driver), Wrapped(f.pos))
  <2>1. f.type = "FEEDBACK" => c.index = driver.index
    <3>1. Heard(driver) \in Drivers /\ Heard(driver).index = driver.index
      BY <1>1, HeardSound DEF Sound
    <3>2. f.type = "FEEDBACK" => f.pos \in Int
      BY <1>1, <1>5, ReceiveEffect
    <3> QED BY <3>1, <3>2, WrappedType, CountedEffect
  <2>2. \/ MovesTo(driver, driver')
        \/ /\ f.type = "FEEDBACK" /\ Kept(c, driver')
           /\ \/ driver'.step = "ERROR"
              \/ driver'.step = driver.step /\ driver'.enabled = driver.enabled
              \/ /\ driver.step = "WAIT_FOR_ENABLE" /\ driver'.enabled
                 /\ driver'.step \in {"READY", "WRITE_PARAMETER"}
        \/ /\ driver.step \in {"WAIT_FOR_STARTUP_POSITION", "WAIT_FOR_STARTUP_HOLD"}
           /\ driver'.step \in {"WRITE_STARTUP_HOLD", "ENABLE"}
           /\ driver'.index = driver.index
        \/ /\ driver.step = "WAIT_FOR_READ" /\ driver'.index = driver.index + 1
           /\ driver'.enabled = driver.enabled
           /\ IF driver.enabled THEN driver'.step \in {"READY", "WRITE_PARAMETER"}
                                ELSE driver'.step = "READ_STARTUP_POSITION"
    BY <1>1, <1>5, ReceiveMoves DEF Kept
  <2> HIDE DEF f, c
  <2>3. CASE MovesTo(driver, driver')
    BY <1>3, <2>3
  <2>4. CASE /\ f.type = "FEEDBACK" /\ Kept(c, driver')
             /\ \/ driver'.step = "ERROR"
                \/ driver'.step = driver.step /\ driver'.enabled = driver.enabled
                \/ /\ driver.step = "WAIT_FOR_ENABLE" /\ driver'.enabled
                   /\ driver'.step \in {"READY", "WRITE_PARAMETER"}
    BY <2>1, <2>4 DEF Staged, Kept, TableSteps, PositionSteps, HoldSteps, EnableSteps
  <2> QED BY <1>1, <2>2, <2>3, <2>4 DEF Staged, TableSteps, PositionSteps, HoldSteps,
                                        EnableSteps
<1>6. CASE Requests
  <2>1. /\ driver'.index = driver.index /\ driver'.step = driver.step
        /\ driver'.enabled = driver.enabled
    BY <1>1, <1>6, RequestsKeep DEF Kept
  <2> QED BY <2>1 DEF Staged
<1>7. CASE MotorSteps \/ UNCHANGED vars
  <2>1. driver' = driver
    BY <1>1, <1>7, MotorEffect DEF vars
  <2> QED BY <2>1 DEF Staged
<1> QED BY <1>3, <1>4, <1>5, <1>6, <1>7 DEF Next, Period, PeriodOfAnother

LEMMA AtPositionNext ==
  ASSUME ShaftMoves = FALSE, IInv, AtPosition, [Next]_vars
  PROVE  AtPosition'
<1>1. TypeOK /\ Sound(driver) /\ motor \in Motors /\ inbox \in Seq(Answers)
  BY DEF IInv, TypeOK
<1>2. ASSUME inbox' = inbox, motor'.pos = motor.pos PROVE AtPosition'
  BY <1>2 DEF AtPosition, Pending
<1>3. ASSUME NEW a \in Answers, inbox' = Append(inbox, a), motor'.pos = motor.pos,
             a.type = "POSITION" => a.value = motor.pos,
             a.type = "FEEDBACK" => a.pos = motor.pos
      PROVE  AtPosition'
  <2>1. Pending' = Pending \cup {a}
    BY <1>1, <1>3, PendingAppend
  <2> QED BY <1>3, <2>1 DEF AtPosition
<1>4. ASSUME NEW turn \in BOOLEAN, Tick(turn) PROVE AtPosition'
  <2>1. /\ motor'.pos = motor.pos
        /\ \/ inbox' = inbox
           \/ \E a \in Answers : inbox' = Append(inbox, a) /\ TrueOf(a, motor')
    BY <1>1, <1>4, TickEffect
  <2> QED BY <1>2, <1>3, <2>1 DEF TrueOf
<1>5. CASE Receive
  <2>1. motor' = motor /\ Pending' \subseteq Pending
    BY <1>1, <1>5, ReceiveEffect, PendingTail
  <2> QED BY <2>1 DEF AtPosition
<1>6. CASE Requests
  <2>1. UNCHANGED <<motor, inbox>>
    BY <1>1, <1>6, RequestsKeep
  <2> QED BY <1>2, <2>1
<1>7. CASE MotorSteps
  <2>1. \/ inbox' = Append(inbox, Status(motor)) /\ motor'.pos = motor.pos
        \/ inbox' = <<>>
        \/ inbox' = Append(inbox, [type |-> "FAULT"]) /\ motor'.pos = motor.pos
        \/ inbox' = inbox /\ motor'.pos = motor.pos
    BY <1>1, <1>7, MotorEffect
  <2>2. CASE inbox' = Append(inbox, Status(motor)) /\ motor'.pos = motor.pos
    <3>1. Status(motor) \in Answers /\ TrueOf(Status(motor), motor)
          /\ Status(motor).type = "FEEDBACK"
      BY <1>1, StatusType, StatusTrue
    <3> QED BY <1>3, <2>2, <3>1 DEF TrueOf
  <2>3. CASE inbox' = <<>>
    BY <2>3 DEF AtPosition, Pending
  <2>4. CASE inbox' = Append(inbox, [type |-> "FAULT"]) /\ motor'.pos = motor.pos
    <3> DEFINE a == [type |-> "FAULT"]
    <3>1. a \in Answers /\ a.type = "FAULT"
      BY DEF Answers
    <3> HIDE DEF a
    <3>2. inbox' = Append(inbox, a)
      BY <2>4 DEF a
    <3> QED BY <1>3, <2>4, <3>1, <3>2
  <2> QED BY <1>2, <2>1, <2>2, <2>3, <2>4
<1>8. CASE UNCHANGED vars
  BY <1>2, <1>8 DEF vars
<1> QED BY <1>4, <1>5, <1>6, <1>7, <1>8 DEF Next, Period, PeriodOfAnother
-----------------------------------------------------------------------------
(***************************************************************************)
(* Enabled holding.  An answer to the hold that confirms it does so of the *)
(* reference the motor has now: nothing writes that reference between, as  *)
(* long as no such answer is left over when the driver becomes READY and   *)
(* writes targets.  OneAnswer says so of the queue: only its first frame   *)
(* may answer a parameter read.  It is what a driver with one request at a *)
(* time sees whose frames are handled within a period.                     *)
(***************************************************************************)
OneAnswer == \A i \in 2..Len(inbox) : inbox[i].type \in {"FEEDBACK", "FAULT"}

Holding ==
  UsesPosition =>
    /\ driver.step \in HoldSteps => driver.hold = motor.pos
    /\ motor.on =>
         /\ \A a \in Pending : a.type = "HOLD" /\ a.value = motor.pos
                                 => motor.ref = motor.pos
         /\ driver.step \in EnableSteps => motor.ref = motor.pos
    /\ driver.step = "READY" => \A a \in Pending : a.type # "HOLD"

HInv == IInv /\ Written /\ Staged /\ AtPosition /\ Holding

LEMMA InitStaged == Init => Staged /\ AtPosition /\ Holding
<1> SUFFICES ASSUME Init PROVE Staged /\ AtPosition /\ Holding
  OBVIOUS
<1>1. /\ driver.index = 0 /\ driver.step = "WRITE_PARAMETER" /\ ~driver.enabled
      /\ inbox = <<>>
  BY DEF Init
<1>2. Pending = {}
  BY <1>1 DEF Pending
<1> QED BY <1>1, <1>2 DEF Staged, AtPosition, Holding, PositionSteps, HoldSteps,
                          EnableSteps

\* What is left behind the first frame answers nothing.
LEMMA TailAnswersNothing ==
  ASSUME inbox \in Seq(Answers), inbox # <<>>, inbox' = Tail(inbox), OneAnswer
  PROVE  \A a \in Pending' : a.type # "HOLD"
<1>1. /\ Len(inbox') = Len(inbox) - 1 /\ Len(inbox) \in Nat
      /\ \A i \in 1..Len(inbox') : inbox'[i] = inbox[i + 1]
  BY PendingTail
<1>2. \A i \in 1..Len(inbox') : inbox'[i].type \in {"FEEDBACK", "FAULT"}
  BY <1>1 DEF OneAnswer
<1> QED BY <1>2 DEF Pending

LEMMA HoldingNext ==
  ASSUME LongOutages = TRUE, ShaftMoves = FALSE, HInv, OneAnswer, [Next]_vars
  PROVE  Holding'
<1>1. /\ TypeOK /\ Sound(driver) /\ motor \in Motors /\ inbox \in Seq(Answers)
      /\ driver \in Drivers /\ driver.index \in Nat
  BY DEF HInv, IInv, TypeOK, Sound, Drivers
<1>2. ASSUME NEW turn \in BOOLEAN, Tick(turn) PROVE Holding'
  <2>1. /\ kind' = kind
        /\ MovesTo(driver, driver') \/ Fresh(driver')
        /\ motor'.on = motor.on /\ motor'.pos = motor.pos
        /\ UsesPosition /\ motor'.ref # motor.ref =>
             \/ driver.step = "READY"
             \/ driver.step \in HoldSteps /\ motor'.ref = driver.hold
        /\ \/ inbox' = inbox
           \/ \E a \in Answers :
                /\ inbox' = Append(inbox, a) /\ TrueOf(a, motor')
                /\ a.type = "HOLD" => driver.step \in HoldSteps
    BY <1>1, <1>2, TickEffect
  <2>2. /\ driver'.step \in HoldSteps
             => driver.step \in HoldSteps /\ driver'.hold = driver.hold
        /\ driver'.step \in EnableSteps => driver.step \in EnableSteps
        /\ driver'.step = "READY" => driver.step = "READY"
    BY <2>1 DEF MovesTo, Kept, Fresh, TableSteps, PositionSteps, HoldSteps, EnableSteps
  <2>3. \A a \in Pending' : a.type = "HOLD" =>
          \/ a \in Pending
          \/ driver.step \in HoldSteps /\ a.value = motor'.ref
    <3>1. CASE inbox' = inbox
      BY <3>1 DEF Pending
    <3>2. CASE \E a \in Answers :
                 /\ inbox' = Append(inbox, a) /\ TrueOf(a, motor')
                 /\ a.type = "HOLD" => driver.step \in HoldSteps
      <4>1. PICK a \in Answers :
              /\ inbox' = Append(inbox, a) /\ TrueOf(a, motor')
              /\ a.type = "HOLD" => driver.step \in HoldSteps
        BY <3>2
      <4>2. Pending' = Pending \cup {a}
        BY <1>1, <4>1, PendingAppend
      <4> QED BY <4>1, <4>2 DEF TrueOf
    <3> QED BY <2>1, <3>1, <3>2
  <2> SUFFICES ASSUME UsesPosition PROVE Holding'
    BY <2>1 DEF Holding, UsesPosition
  <2>4. driver'.step \in HoldSteps => driver'.hold = motor'.pos
    BY <2>1, <2>2 DEF HInv, Holding
  <2>5. ASSUME motor'.on, NEW a \in Pending', a.type = "HOLD", a.value = motor'.pos
        PROVE  motor'.ref = motor'.pos
    <3>1. CASE driver.step = "READY"
      BY <2>3, <2>5, <3>1 DEF HInv, Holding, HoldSteps
    <3>2. CASE driver.step # "READY"
      BY <2>1, <2>3, <2>5, <3>2 DEF HInv, Holding
    <3> QED BY <3>1, <3>2
  <2>6. motor'.on /\ driver'.step \in EnableSteps => motor'.ref = motor'.pos
    BY <2>1, <2>2 DEF HInv, Holding, EnableSteps, HoldSteps
  <2>7. driver'.step = "READY" => \A a \in Pending' : a.type # "HOLD"
    BY <2>2, <2>3 DEF HInv, Holding, HoldSteps
  <2> QED BY <2>4, <2>5, <2>6, <2>7 DEF Holding
<1>3. CASE Receive
  <2> DEFINE f == Head(inbox)
             c == Counted(Heard(driver), Wrapped(f.pos))
  <2>1. /\ UNCHANGED <<kind, motor>> /\ inbox # <<>> /\ inbox' = Tail(inbox)
    BY <1>1, <1>3, ReceiveEffect
  <2>2. f \in Pending /\ Pending' \subseteq Pending
    BY <1>1, <2>1, PendingTail
  <2>3. \A a \in Pending' : a.type # "HOLD"
    BY <1>1, <2>1, TailAnswersNothing DEF HInv
  <2> SUFFICES ASSUME UsesPosition PROVE Holding'
    BY <2>1 DEF Holding, UsesPosition
  <2>4. f.type = "FEEDBACK" => c.hold = driver.hold
    <3>1. Heard(driver) \in Drivers /\ Heard(driver).hold = driver.hold
      BY <1>1 DEF Heard, Drivers
    <3>2. f.type = "FEEDBACK" => f.pos \in Int
      BY <1>1, <1>3, ReceiveEffect
    <3> QED BY <3>1, <3>2, WrappedType, CountedEffect
  <2>5. Staged /\ AtPosition
    BY DEF HInv
  <2>6. \/ MovesTo(driver, driver')
        \/ /\ f.type = "FEEDBACK" /\ Kept(c, driver')
           /\ driver'.step \in {"ERROR", driver.step, "READY", "WRITE_PARAMETER"}
        \/ /\ f.type = "POSITION"
           /\ driver'.step = "WRITE_STARTUP_HOLD" /\ driver'.hold = f.value
        \/ /\ driver.step = "WAIT_FOR_STARTUP_HOLD" /\ f.type = "HOLD"
           /\ f.value = driver.hold /\ driver'.step = "ENABLE"
        \/ driver'.step \in {"READY", "WRITE_PARAMETER", "READ_STARTUP_POSITION"}
    BY <1>1, <1>3, <2>5, ReceiveMoves
  <2> HIDE DEF f, c
  <2>7. driver'.step \in HoldSteps => driver'.hold = motor.pos
    BY <2>2, <2>4, <2>5, <2>6
       DEF AtPosition, HInv, Holding, MovesTo, Kept, TableSteps, PositionSteps,
           HoldSteps, EnableSteps
  <2>8. motor.on /\ driver'.step \in EnableSteps => motor.ref = motor.pos
    <3>1. driver'.step \in EnableSteps =>
            \/ driver.step \in EnableSteps
            \/ /\ driver.step \in HoldSteps
               /\ f.type = "HOLD" /\ f.value = driver.hold
      BY <2>6 DEF MovesTo, TableSteps, PositionSteps, HoldSteps, EnableSteps
    <3> QED BY <2>2, <3>1 DEF HInv, Holding
  <2> QED BY <2>1, <2>3, <2>7, <2>8 DEF Holding
<1>4. CASE Requests
  <2>1. /\ UNCHANGED <<kind, motor, inbox>> /\ driver'.step = driver.step
        /\ driver'.hold = driver.hold
    BY <1>1, <1>4, RequestsKeep DEF Kept
  <2> QED BY <2>1 DEF HInv, Holding, Pending, UsesPosition
<1>5. CASE MotorSteps
  <2>1. UNCHANGED <<kind, driver>>
    BY <1>1, <1>5, MotorEffect
  <2>2. \/ /\ inbox' = inbox \/ inbox' = Append(inbox, Status(motor))
                \/ inbox' = Append(inbox, [type |-> "FAULT"])
           /\ motor'.on = motor.on /\ motor'.ref = motor.ref
           /\ motor'.pos = motor.pos
        \/ driver.step = "READY" /\ inbox' = inbox /\ inbox = <<>>
        \/ inbox' = inbox /\ ~motor'.on /\ motor'.pos = motor.pos
        \/ /\ inbox' = inbox /\ inbox = <<>> /\ driver.index = 0
           /\ motor'.pos = motor.pos
    BY <1>1, <1>5, MotorEffect DEF Registers
  <2>3. /\ Status(motor) \in Answers /\ Status(motor).type = "FEEDBACK"
        /\ [type |-> "FAULT"] \in Answers
        /\ \A a : a = [type |-> "FAULT"] => a.type = "FAULT"
    BY <1>1, StatusType, StatusTrue DEF Answers
  <2>4. \/ Pending' = Pending \/ Pending' = Pending \cup {Status(motor)}
        \/ Pending' = Pending \cup {[type |-> "FAULT"]}
    <3>1. inbox' = inbox => Pending' = Pending
      BY DEF Pending
    <3> QED BY <1>1, <2>2, <2>3, <3>1, PendingAppend
  <2>5. \A a \in Pending' : a.type = "HOLD" => a \in Pending
    BY <2>3, <2>4
  <2>6. inbox = <<>> => Pending = {}
    BY DEF Pending
  <2> SUFFICES ASSUME UsesPosition PROVE Holding'
    BY <2>1 DEF Holding, UsesPosition
  <2>7. CASE /\ motor'.on = motor.on /\ motor'.ref = motor.ref
             /\ motor'.pos = motor.pos
    BY <2>1, <2>5, <2>7 DEF HInv, Holding
  <2>8. CASE driver.step = "READY" /\ inbox = <<>>
    BY <2>1, <2>5, <2>6, <2>8 DEF Holding, HoldSteps, EnableSteps
  <2>9. CASE ~motor'.on /\ motor'.pos = motor.pos
    BY <2>1, <2>5, <2>9 DEF HInv, Holding
  <2>10. CASE inbox = <<>> /\ driver.index = 0 /\ motor'.pos = motor.pos
    <3>1. driver.step \notin EnableSteps
      BY <2>10 DEF HInv, Staged
    <3> QED BY <2>1, <2>5, <2>6, <2>10, <3>1 DEF HInv, Holding
  <2> QED BY <2>2, <2>7, <2>8, <2>9, <2>10
<1>6. CASE UNCHANGED vars
  BY <1>6 DEF vars, HInv, Holding, Pending, UsesPosition
<1> QED BY <1>2, <1>3, <1>4, <1>5, <1>6 DEF Next, Period, PeriodOfAnother

\* The step of EnabledHolding: the motor goes into RUN only in the phase of
\* ENABLE, at its reference.
LEMMA EnablesHolding ==
  ASSUME HInv, [Next]_vars
  PROVE  UsesPosition /\ ~motor.run /\ motor'.run
           => 1 \in motor.params /\ motor.ref = motor.pos
<1> SUFFICES ASSUME UsesPosition, ~motor.run, motor'.run
             PROVE  1 \in motor.params /\ motor.ref = motor.pos
  OBVIOUS
<1>1. TypeOK /\ Sound(driver) /\ driver.index \in Nat
  BY DEF HInv, IInv, Sound, Drivers
<1>2. ASSUME NEW turn \in BOOLEAN, Tick(turn)
      PROVE  1 \in motor.params /\ motor.ref = motor.pos
  <2>1. motor.on /\ driver.step \in EnableSteps
    BY <1>1, <1>2, TickEffect
  <2>2. motor.ref = motor.pos
    BY <2>1 DEF HInv, Holding
  <2>3. driver.index >= 1
    BY <2>1 DEF HInv, Staged
  <2>4. 1 \in 1..driver.index
    BY <1>1, <2>3
  <2> QED BY <2>1, <2>2, <2>4 DEF HInv, Written
<1>3. ASSUME MotorSteps PROVE motor'.run = motor.run \/ ~motor'.run
  BY <1>1, <1>3, MotorEffect DEF Registers
<1>4. ASSUME Receive \/ Requests \/ UNCHANGED vars PROVE motor' = motor
  BY <1>1, <1>4, RequestsKeep DEF Receive, vars
<1> QED BY <1>2, <1>3, <1>4 DEF Next, Period, PeriodOfAnother

\* A position motor goes into RUN only in its configured mode and with its
\* reference where the shaft is: whatever is lost, late or refused, however
\* often the initialisation is retried or started over, ENABLE moves nothing.
\* Assumed: an outage lasts until the driver started over (LongOutages), the
\* shaft rests unless READY (ShaftMoves), and no second answer is queued behind
\* the one the driver waits for.
THEOREM EnablingMovesNothing ==
  ASSUME LongOutages = TRUE, ShaftMoves = FALSE
  PROVE  Spec /\ []OneAnswer => EnabledHolding
<1>1. Init => HInv
  BY InitSound, InitComplete, InitStaged DEF HInv
<1>2. HInv /\ OneAnswer /\ [Next]_vars => HInv'
  <2> SUFFICES ASSUME HInv, OneAnswer, [Next]_vars PROVE HInv'
    OBVIOUS
  <2>1. IInv' /\ Written'
    BY NextSound, WrittenNext DEF HInv
  <2>2. Staged' /\ AtPosition' /\ Holding'
    BY StagedNext, AtPositionNext, HoldingNext DEF HInv
  <2> QED BY <2>1, <2>2 DEF HInv
<1>3. HInv /\ [Next]_vars
        => [UsesPosition /\ ~motor.run /\ motor'.run
              => 1 \in motor.params /\ motor.ref = motor.pos]_vars
  BY EnablesHolding
<1> QED BY <1>1, <1>2, <1>3, PTL DEF Spec, EnabledHolding

\* Where the driver handles the motor's frames within a period, or the queue
\* holds one frame, there is never a second answer.
LEMMA OneAnswerNext ==
  ASSUME Prompt = TRUE \/ MaxInbox <= 1, IInv, OneAnswer, [Next]_vars
  PROVE  OneAnswer'
<1>1. /\ TypeOK /\ Sound(driver) /\ inbox \in Seq(Answers) /\ Len(inbox) \in Nat
      /\ motor \in Motors
  BY DEF IInv, TypeOK
<1>2. ASSUME inbox' = inbox PROVE OneAnswer'
  BY <1>2 DEF OneAnswer
<1>3. ASSUME NEW a \in Answers, inbox' = Append(inbox, a),
             inbox = <<>> \/ a.type \in {"FEEDBACK", "FAULT"}
      PROVE  OneAnswer'
  <2>1. /\ Len(inbox') = Len(inbox) + 1 /\ inbox'[Len(inbox) + 1] = a
        /\ \A i \in 1..Len(inbox) : inbox'[i] = inbox[i]
    BY <1>1, <1>3, PendingAppend
  <2>2. inbox = <<>> => Len(inbox) = 0
    OBVIOUS
  <2> QED BY <1>1, <1>3, <2>1, <2>2 DEF OneAnswer
<1>4. ASSUME NEW turn \in BOOLEAN, Tick(turn) PROVE OneAnswer'
  <2>1. \/ inbox' = inbox
        \/ /\ Len(inbox) < MaxInbox /\ (Prompt => inbox = <<>>)
           /\ \E a \in Answers : inbox' = Append(inbox, a)
    BY <1>1, <1>4, TickEffect
  <2>2. Len(inbox) < MaxInbox /\ (Prompt => inbox = <<>>) => inbox = <<>>
    <3>1. MaxInbox \in Nat
      BY EduliteAssumption
    <3>2. MaxInbox <= 1 /\ Len(inbox) < MaxInbox => Len(inbox) = 0
      BY <1>1, <3>1
    <3>3. Len(inbox) = 0 => inbox = <<>>
      BY <1>1
    <3> QED BY <3>2, <3>3
  <2> QED BY <1>2, <1>3, <2>1, <2>2
<1>5. CASE Receive
  <2>1. inbox # <<>> /\ inbox' = Tail(inbox)
    BY <1>5 DEF Receive
  <2>2. /\ Len(inbox') = Len(inbox) - 1
        /\ \A i \in 1..Len(inbox') : inbox'[i] = inbox[i + 1]
    BY <1>1, <2>1, PendingTail
  <2> QED BY <1>1, <2>2 DEF OneAnswer
<1>6. CASE Requests \/ UNCHANGED vars
  <2>1. inbox' = inbox
    BY <1>1, <1>6, RequestsKeep DEF vars
  <2> QED BY <1>2, <2>1
<1>7. CASE MotorSteps
  <2>1. \/ inbox' = inbox \/ inbox' = Append(inbox, Status(motor))
        \/ inbox' = Append(inbox, [type |-> "FAULT"])
    BY <1>1, <1>7, MotorEffect
  <2>2. Status(motor) \in Answers /\ Status(motor).type = "FEEDBACK"
    BY <1>1, StatusType, StatusTrue
  <2>3. ASSUME inbox' = Append(inbox, [type |-> "FAULT"]) PROVE OneAnswer'
    <3> DEFINE a == [type |-> "FAULT"]
    <3>1. a \in Answers /\ a.type = "FAULT"
      BY DEF Answers
    <3> HIDE DEF a
    <3>2. inbox' = Append(inbox, a)
      BY <2>3 DEF a
    <3> QED BY <1>3, <3>1, <3>2
  <2> QED BY <1>2, <1>3, <2>1, <2>2, <2>3
<1> QED BY <1>4, <1>5, <1>6, <1>7 DEF Next, Period, PeriodOfAnother

\* So there EnabledHolding needs no assumption about the queue.
THEOREM EnablingHolds ==
  ASSUME LongOutages = TRUE, ShaftMoves = FALSE, Prompt = TRUE \/ MaxInbox <= 1
  PROVE  Spec => EnabledHolding
<1>1. Init => OneAnswer
  <2> SUFFICES ASSUME Init PROVE OneAnswer
    OBVIOUS
  <2>1. inbox = <<>>
    BY DEF Init
  <2>2. Len(inbox) = 0
    BY <2>1
  <2>3. 2..Len(inbox) = {}
    BY <2>2
  <2> QED BY <2>3 DEF OneAnswer
<1>2. IInv /\ OneAnswer /\ [Next]_vars => OneAnswer'
  BY OneAnswerNext
<1>3. Spec => []OneAnswer
  BY <1>1, <1>2, Invariant, PTL DEF Spec
<1>4. Spec /\ []OneAnswer => EnabledHolding
  BY EnablingMovesNothing
<1> QED BY <1>3, <1>4, PTL
-----------------------------------------------------------------------------
(***************************************************************************)
(* Counting turns.  A feedback frame carries the position within a turn.   *)
(* If the shaft turned by less than half a turn since the last one, the    *)
(* whole turns are recovered.                                              *)
(***************************************************************************)
THEOREM ShortWayRound ==
  ASSUME NEW p \in Int, NEW c \in Int, 2 * (p - c) < Turn, 2 * (p - c) > -Turn
  PROVE  Unwrapped(Wrapped(p) - Wrapped(c)) = p - c
<1> DEFINE q == c \div Turn
           r == c % Turn
           x == p - c
<1> Turn \in Nat /\ Turn > 0
  BY EduliteAssumption
<1>1. c = Turn * q + r /\ q \in Int /\ r \in Int /\ 0 <= r /\ r < Turn
  OBVIOUS
<1>2. \A k, s \in Int : 0 <= s /\ s < Turn => (Turn * k + s) % Turn = s
  OBVIOUS
<1>3. /\ Turn * q \in Int
      /\ Turn * (q + 1) = Turn * q + Turn /\ Turn * (q - 1) = Turn * q - Turn
  BY <1>1
<1> HIDE DEF q
<1>4. Wrapped(c) = r
  BY DEF Wrapped
<1>5. x \in Int /\ 2 * x < Turn /\ 2 * x > -Turn /\ p = c + x
  OBVIOUS
<1> HIDE DEF r, x
<1>6. Wrapped(p) - Wrapped(c) \in {x, x - Turn, x + Turn}
  <2>1. CASE r + x < 0
    <3>1. p = Turn * (q - 1) + (r + x + Turn)
      BY <1>1, <1>3, <1>5
    <3>2. /\ q - 1 \in Int /\ r + x + Turn \in Int
          /\ 0 <= r + x + Turn /\ r + x + Turn < Turn
      BY <1>1, <1>5, <2>1
    <3>3. Wrapped(p) = r + x + Turn
      BY <1>2, <3>1, <3>2 DEF Wrapped
    <3> QED BY <1>1, <1>4, <1>5, <3>3
  <2>2. CASE r + x >= 0 /\ r + x < Turn
    <3>1. p = Turn * q + (r + x)
      BY <1>1, <1>3, <1>5
    <3>2. Wrapped(p) = r + x
      BY <1>1, <1>2, <1>5, <2>2, <3>1 DEF Wrapped
    <3> QED BY <1>1, <1>4, <1>5, <3>2
  <2>3. CASE r + x >= Turn
    <3>1. p = Turn * (q + 1) + (r + x - Turn)
      BY <1>1, <1>3, <1>5
    <3>2. /\ q + 1 \in Int /\ r + x - Turn \in Int
          /\ 0 <= r + x - Turn /\ r + x - Turn < Turn
      BY <1>1, <1>5, <2>3
    <3>3. Wrapped(p) = r + x - Turn
      BY <1>2, <3>1, <3>2 DEF Wrapped
    <3> QED BY <1>1, <1>4, <1>5, <3>3
  <2> QED BY <1>1, <1>5, <2>1, <2>2, <2>3
<1>7. Unwrapped(Wrapped(p) - Wrapped(c)) = x
  BY <1>5, <1>6 DEF Unwrapped
<1> QED BY <1>7 DEF x

\* The steps whose count of turns is to be that of the shaft.
Aligned ==
  \/ driver.step \in HoldSteps \cup EnableSteps
  \/ driver.step \in TableSteps /\ driver.index >= 1

\* An aligned driver counts the position of the shaft, or will count from it
\* with the first feedback.  The shaft of a READY motor is at most one step
\* ahead of the count, and then a feedback frame is still to come.
Counting ==
  UsesPosition =>
    /\ driver.enabled => driver.known
    /\ driver.step \notin {"READY", "ERROR"} /\ driver.known
         => driver.last = Wrapped(motor.pos)
    /\ Aligned => IF driver.known THEN driver.count = motor.pos
                  ELSE driver.aligning /\ driver.hold = motor.pos
    /\ driver.step = "READY" =>
         /\ driver.known /\ driver.last = Wrapped(driver.count)
         /\ motor.pos \in {driver.count - 1, driver.count, driver.count + 1}
         /\ ~motor.moved => \/ motor.pos = driver.count
                            \/ \E a \in Pending : a.type = "FEEDBACK"

NInv == IInv /\ Staged /\ AtPosition /\ Counting

\* Feedback to an aligned driver, and to one that is READY, makes it count the
\* position of the shaft.
LEMMA FeedbackCounts ==
  ASSUME Turn > 2, NInv, UsesPosition, Receive, Head(inbox).type = "FEEDBACK"
  PROVE  /\ Head(inbox).pos = motor.pos /\ motor' = motor
         /\ driver'.known /\ driver'.index = driver.index
         /\ driver'.hold = driver.hold
         /\ driver'.last = Wrapped(motor.pos)
         /\ Aligned \/ driver.step = "READY" => driver'.count = motor.pos
         /\ \/ driver'.step = "ERROR" /\ ~driver'.enabled
            \/ driver'.step = driver.step /\ driver'.enabled = driver.enabled
            \/ /\ driver.step = "WAIT_FOR_ENABLE" /\ driver'.enabled
               /\ driver'.step \in {"READY", "WRITE_PARAMETER"}
<1> DEFINE f == Head(inbox)
           h == Heard(driver)
           c == Counted(h, Wrapped(f.pos))
<1>1. /\ TypeOK /\ Sound(driver) /\ Staged /\ driver \in Drivers
      /\ motor.pos \in Int /\ Turn \in Nat
  BY EduliteAssumption DEF NInv, IInv, Sound, TypeOK, Motors
<1>2. /\ motor' = motor /\ inbox # <<>> /\ inbox' = Tail(inbox)
      /\ f.pos \in Int /\ f \in Pending
  BY <1>1, ReceiveEffect, PendingTail DEF TypeOK
<1>3. f.pos = motor.pos
  BY <1>2 DEF NInv, AtPosition
<1>4. /\ Kept(c, driver')
      /\ \/ driver'.step = "ERROR" /\ ~driver'.enabled
         \/ driver'.step = driver.step /\ driver'.enabled = driver.enabled
         \/ /\ driver.step = "WAIT_FOR_ENABLE" /\ driver'.enabled
            /\ driver'.step \in {"READY", "WRITE_PARAMETER"}
  BY <1>1, ReceiveMoves
<1>5. /\ h \in Drivers /\ h.index = driver.index /\ h.hold = driver.hold
      /\ h.known = driver.known /\ h.count = driver.count /\ h.last = driver.last
      /\ h.aligning = driver.aligning
  BY <1>1 DEF Heard, Drivers
<1> HIDE DEF h
<1>6. /\ c.index = h.index /\ c.hold = h.hold /\ c.known /\ c.last = Wrapped(f.pos)
      /\ h.known => c.count = h.count + Unwrapped(Wrapped(f.pos) - h.last)
      /\ ~h.known => c.count = IF h.aligning THEN h.hold ELSE Wrapped(f.pos)
  BY <1>2, <1>5, WrappedType, CountedEffect
<1> HIDE DEF f, c
<1>7. CASE driver.step = "READY" \/ (Aligned /\ driver.known)
  <2>1. /\ driver.known /\ driver.last = Wrapped(driver.count)
        /\ motor.pos \in {driver.count - 1, driver.count, driver.count + 1}
    BY <1>7 DEF NInv, Counting, Aligned, TableSteps, HoldSteps, EnableSteps
  <2>2. driver.count \in Int
    BY <1>1 DEF Drivers
  <2>3. Unwrapped(Wrapped(motor.pos) - Wrapped(driver.count)) = motor.pos - driver.count
    BY <1>1, <2>1, <2>2, ShortWayRound
  <2>4. c.count = motor.pos
    BY <1>1, <1>3, <1>5, <1>6, <2>1, <2>2, <2>3
  <2> QED BY <1>2, <1>3, <1>4, <1>5, <1>6, <2>4 DEF Kept, f
<1>8. CASE Aligned /\ ~driver.known
  <2>1. driver.aligning /\ driver.hold = motor.pos
    BY <1>8 DEF NInv, Counting
  <2>2. c.count = motor.pos
    BY <1>5, <1>6, <1>8, <2>1
  <2> QED BY <1>2, <1>3, <1>4, <1>5, <1>6, <2>2 DEF Kept, f
<1>9. CASE ~(Aligned \/ driver.step = "READY")
  BY <1>2, <1>3, <1>4, <1>5, <1>6, <1>9 DEF Kept, f
<1> QED BY <1>7, <1>8, <1>9

LEMMA CountingNext ==
  ASSUME ShaftMoves = FALSE, Turn > 2, NInv, [Next]_vars
  PROVE  Counting'
<1>1. /\ TypeOK /\ Sound(driver) /\ motor \in Motors /\ inbox \in Seq(Answers)
      /\ driver \in Drivers /\ driver.index \in Nat
      /\ Staged /\ AtPosition /\ Counting
  BY DEF NInv, IInv, TypeOK, Sound, Drivers
\* Without news the driver keeps its count, or forgets it.
<1>2. ASSUME kind' = kind, MovesTo(driver, driver') \/ Fresh(driver'),
             motor'.pos = motor.pos, motor'.moved = motor.moved,
             \A a \in Pending : a.type = "FEEDBACK" => a \in Pending'
      PROVE  Counting'
  <2> SUFFICES ASSUME UsesPosition PROVE Counting'
    BY <1>2 DEF Counting, UsesPosition
  <2>1. CASE Fresh(driver')
    <3>1. /\ ~driver'.enabled /\ ~driver'.known /\ driver'.step # "READY"
          /\ ~Aligned'
      BY <2>1 DEF Fresh, Aligned, TableSteps, HoldSteps, EnableSteps
    <3> QED BY <3>1 DEF Counting
  <2>2. CASE MovesTo(driver, driver')
    <3>1. Aligned' => Aligned
      BY <2>2 DEF MovesTo, Kept, Aligned, TableSteps, PositionSteps, HoldSteps,
                  EnableSteps
    <3>2. /\ driver'.step \notin {"READY", "ERROR"}
               => driver.step \notin {"READY", "ERROR"}
          /\ driver'.step = "READY" => driver.step = "READY"
          /\ driver'.enabled => driver.enabled
          /\ driver'.known = driver.known /\ driver'.last = driver.last
          /\ driver'.count = driver.count /\ driver'.hold = driver.hold
          /\ driver'.aligning = driver.aligning
      BY <2>2 DEF MovesTo, Kept, TableSteps, PositionSteps, HoldSteps, EnableSteps
    <3> QED BY <1>1, <1>2, <3>1, <3>2 DEF Counting
  <2> QED BY <1>2, <2>1, <2>2
<1>3. ASSUME NEW turn \in BOOLEAN, Tick(turn) PROVE Counting'
  <2>1. /\ kind' = kind
        /\ MovesTo(driver, driver') \/ Fresh(driver')
        /\ motor'.pos = motor.pos /\ motor'.moved = motor.moved
        /\ inbox' = inbox \/ (\E a \in Answers : inbox' = Append(inbox, a))
    BY <1>1, <1>3, TickEffect
  <2>2. Pending \subseteq Pending'
    <3>1. inbox' = inbox => Pending' = Pending
      BY DEF Pending
    <3> QED BY <1>1, <2>1, <3>1, PendingAppend
  <2> QED BY <1>2, <2>1, <2>2
<1>4. CASE Receive
  <2> DEFINE f == Head(inbox)
  <2>1. /\ UNCHANGED <<kind, motor>> /\ inbox # <<>> /\ inbox' = Tail(inbox)
    BY <1>1, <1>4, ReceiveEffect
  <2>2. f \in Pending /\ Pending \subseteq Pending' \cup {f}
    BY <1>1, <2>1, PendingTail
  <2> SUFFICES ASSUME UsesPosition PROVE Counting'
    BY <2>1 DEF Counting, UsesPosition
  <2>3. CASE f.type = "FEEDBACK"
    <3>1. /\ driver'.known /\ driver'.index = driver.index
          /\ driver'.last = Wrapped(motor.pos)
          /\ Aligned \/ driver.step = "READY" => driver'.count = motor.pos
          /\ \/ driver'.step = "ERROR"
             \/ driver'.step = driver.step
             \/ /\ driver.step = "WAIT_FOR_ENABLE"
                /\ driver'.step \in {"READY", "WRITE_PARAMETER"}
      BY <1>4, <2>3, FeedbackCounts
    <3>2. Aligned' => Aligned
      BY <3>1 DEF Aligned, TableSteps, HoldSteps, EnableSteps
    <3>3. driver'.step = "READY" => Aligned \/ driver.step = "READY"
      BY <3>1 DEF Aligned, EnableSteps
    <3>4. motor.pos \in Int
      BY <1>1 DEF Motors
    <3> QED BY <2>1, <3>1, <3>2, <3>3, <3>4 DEF Counting
  <2>4. CASE MovesTo(driver, driver') /\ f.type # "FEEDBACK"
    BY <1>2, <2>1, <2>2, <2>4
  <2>5. CASE /\ driver.step = "WAIT_FOR_STARTUP_POSITION" /\ f.type = "POSITION"
             /\ driver'.step = "WRITE_STARTUP_HOLD" /\ driver'.hold = f.value
             /\ driver'.enabled = driver.enabled
             /\ driver'.known = driver.known /\ driver'.last = driver.last
             /\ IF driver.known THEN driver'.count = f.value ELSE driver'.aligning
    <3>1. f.value = motor.pos
      BY <1>1, <2>2, <2>5 DEF AtPosition
    <3> QED BY <1>1, <2>1, <2>5, <3>1 DEF Counting
  <2>6. CASE /\ driver.step = "WAIT_FOR_STARTUP_HOLD"
             /\ driver'.step = "ENABLE"
             /\ Kept(driver, driver') /\ driver'.enabled = driver.enabled
    <3>1. Aligned
      BY <2>6 DEF Aligned, HoldSteps
    <3> QED BY <1>1, <2>1, <2>6, <3>1 DEF Counting, Kept
  <2>7. CASE /\ driver.step = "WAIT_FOR_READ"
             /\ Kept([driver EXCEPT !.index = @ + 1], driver')
             /\ driver'.enabled = driver.enabled
             /\ IF driver.enabled THEN driver'.step \in {"READY", "WRITE_PARAMETER"}
                                  ELSE driver'.step = "READ_STARTUP_POSITION"
    <3>1. /\ driver'.known = driver.known /\ driver'.last = driver.last
          /\ driver'.count = driver.count
      BY <1>1, <2>7 DEF Kept, Drivers
    <3>2. driver.known => driver.last = Wrapped(motor.pos)
      BY <1>1, <2>7 DEF Counting
    <3>3. CASE driver.enabled
      <4>1. driver.known /\ Aligned
        BY <1>1, <2>7, <3>3 DEF Counting, Staged, Aligned, TableSteps
      <4>2. driver.count = motor.pos /\ motor.pos \in Int
        BY <1>1, <4>1 DEF Counting, Motors
      <4>3. driver'.step \in {"READY", "WRITE_PARAMETER"}
        BY <2>7, <3>3
      <4> QED BY <2>1, <3>1, <3>2, <4>1, <4>2, <4>3 DEF Counting
    <3>4. CASE ~driver.enabled
      <4>1. driver'.step = "READ_STARTUP_POSITION" /\ ~driver'.enabled
        BY <2>7, <3>4
      <4>2. ~Aligned'
        BY <4>1 DEF Aligned, TableSteps, HoldSteps, EnableSteps
      <4> QED BY <2>1, <3>1, <3>2, <4>1, <4>2 DEF Counting
    <3> QED BY <3>3, <3>4
  <2>8. \/ f.type = "FEEDBACK"
        \/ MovesTo(driver, driver') /\ f.type # "FEEDBACK"
        \/ /\ driver.step = "WAIT_FOR_STARTUP_POSITION" /\ f.type = "POSITION"
           /\ driver'.step = "WRITE_STARTUP_HOLD" /\ driver'.hold = f.value
           /\ driver'.enabled = driver.enabled
           /\ driver'.known = driver.known /\ driver'.last = driver.last
           /\ IF driver.known THEN driver'.count = f.value ELSE driver'.aligning
        \/ /\ driver.step = "WAIT_FOR_STARTUP_HOLD"
           /\ driver'.step = "ENABLE"
           /\ Kept(driver, driver') /\ driver'.enabled = driver.enabled
        \/ /\ driver.step = "WAIT_FOR_READ"
           /\ Kept([driver EXCEPT !.index = @ + 1], driver')
           /\ driver'.enabled = driver.enabled
           /\ IF driver.enabled THEN driver'.step \in {"READY", "WRITE_PARAMETER"}
                                ELSE driver'.step = "READ_STARTUP_POSITION"
    BY <1>1, <1>4, ReceiveMoves
  <2> HIDE DEF f
  <2> QED BY <2>3, <2>4, <2>5, <2>6, <2>7, <2>8
<1>5. CASE Requests \/ UNCHANGED vars
  <2>1. /\ UNCHANGED <<kind, motor, inbox>>
        /\ Kept(driver, driver') /\ driver'.step = driver.step
        /\ driver'.enabled = driver.enabled
    BY <1>1, <1>5, RequestsKeep DEF vars, Kept
  <2>2. MovesTo(driver, driver') /\ Pending' = Pending
    BY <1>1, <2>1, StaysMoves DEF Pending
  <2> QED BY <1>2, <2>1, <2>2
<1>6. CASE MotorSteps
  <2>1. UNCHANGED <<kind, driver>>
    BY <1>1, <1>6, MotorEffect
  <2>2. MovesTo(driver, driver')
    BY <1>1, <2>1, StaysMoves DEF Kept
  <2>3. /\ Status(motor) \in Answers /\ Status(motor).type = "FEEDBACK"
        /\ [type |-> "FAULT"] \in Answers
    BY <1>1, StatusType, StatusTrue DEF Answers
  <2>4. \/ inbox' = Append(inbox, Status(motor)) /\ motor'.pos = motor.pos
        \/ /\ UsesPosition /\ ~motor.moved /\ motor'.moved
           /\ driver.step = "READY" /\ inbox = <<>> /\ inbox' = inbox
           /\ motor'.pos \in {motor.pos - 1, motor.pos + 1}
        \/ /\ inbox' = inbox \/ inbox' = Append(inbox, [type |-> "FAULT"])
           /\ motor'.pos = motor.pos /\ motor'.moved = motor.moved
    BY <1>1, <1>6, MotorEffect
  <2>5. CASE inbox' = Append(inbox, Status(motor)) /\ motor'.pos = motor.pos
    <3>1. Status(motor) \in Pending'
      BY <1>1, <2>3, <2>5, PendingAppend
    <3>2. Aligned' = Aligned
      BY <2>1 DEF Aligned
    <3> QED BY <1>1, <2>1, <2>3, <2>5, <3>1, <3>2 DEF Counting, UsesPosition
  <2>6. CASE /\ UsesPosition /\ ~motor.moved /\ motor'.moved
             /\ driver.step = "READY" /\ inbox = <<>> /\ inbox' = inbox
             /\ motor'.pos \in {motor.pos - 1, motor.pos + 1}
    <3>1. Pending = {}
      BY <2>6 DEF Pending
    <3>2. /\ motor.pos = driver.count
          /\ driver.known /\ driver.last = Wrapped(driver.count)
      BY <1>1, <2>6, <3>1 DEF Counting
    <3>3. motor'.pos \in {driver.count - 1, driver.count, driver.count + 1}
      BY <2>6, <3>2
    <3>4. ~Aligned'
      BY <2>1, <2>6 DEF Aligned, TableSteps, HoldSteps, EnableSteps
    <3> QED BY <2>1, <2>6, <3>2, <3>3, <3>4 DEF Counting
  <2>7. CASE /\ inbox' = inbox \/ inbox' = Append(inbox, [type |-> "FAULT"])
             /\ motor'.pos = motor.pos /\ motor'.moved = motor.moved
    <3>1. inbox' = inbox => Pending' = Pending
      BY DEF Pending
    <3>2. Pending \subseteq Pending'
      BY <1>1, <2>3, <2>7, <3>1, PendingAppend
    <3> QED BY <1>2, <2>1, <2>2, <2>7, <3>2
  <2> QED BY <2>4, <2>5, <2>6, <2>7
<1> QED BY <1>3, <1>4, <1>5, <1>6 DEF Next, Period, PeriodOfAnother

\* Only the driver takes a frame from the queue.
LEMMA OnlyReceiveTakes ==
  ASSUME IInv, [Next]_vars, inbox # <<>>, inbox' = Tail(inbox)
  PROVE  Receive
<1>1. TypeOK /\ Sound(driver) /\ motor \in Motors /\ inbox \in Seq(Answers)
  BY DEF IInv, TypeOK
<1>2. Len(inbox) \in Nat /\ Len(inbox') = Len(inbox) - 1
  BY <1>1, PendingTail
<1>3. \A a \in Answers : Len(Append(inbox, a)) = Len(inbox) + 1
  BY <1>1
<1>4. /\ Len(inbox') # Len(inbox)
      /\ Len(inbox') # Len(inbox) + 1
  <2>1. \A n \in Nat : n - 1 # n /\ n - 1 # n + 1
    OBVIOUS
  <2> QED BY <1>2, <2>1, Zenon
<1>5. ASSUME NEW turn \in BOOLEAN PROVE ~Tick(turn)
  <2> SUFFICES ASSUME Tick(turn) PROVE FALSE
    OBVIOUS
  <2>1. inbox' = inbox \/ (\E a \in Answers : inbox' = Append(inbox, a))
    BY <1>1, TickEffect
  <2> QED BY <1>3, <1>4, <2>1
<1>6. ~(Requests \/ UNCHANGED vars)
  BY <1>1, <1>4, RequestsKeep DEF vars
<1>7. ~MotorSteps
  <2>1. Status(motor) \in Answers /\ [type |-> "FAULT"] \in Answers
    BY <1>1, StatusType DEF Answers
  <2> SUFFICES ASSUME MotorSteps PROVE FALSE
    OBVIOUS
  <2>2. \/ inbox' = inbox \/ inbox' = Append(inbox, Status(motor))
        \/ inbox' = Append(inbox, [type |-> "FAULT"])
    BY <1>1, MotorEffect
  <2> QED BY <1>3, <1>4, <2>1, <2>2
<1> QED BY <1>5, <1>6, <1>7 DEF Next, Period, PeriodOfAnother

\* While READY the counted position is the shaft's, in whole turns too: no
\* restart, late or refused answer, outage or alignment shifts it, and the
\* queue may be of any length.  Assumed: a turn has more than two positions,
\* and the shaft rests unless READY (ShaftMoves).
THEOREM TurnsAreCounted ==
  ASSUME ShaftMoves = FALSE, Turn > 2
  PROVE  Spec => CountsTurns
<1>1. Init => NInv
  <2> SUFFICES ASSUME Init PROVE NInv
    OBVIOUS
  <2>1. /\ driver.index = 0 /\ driver.step = "WRITE_PARAMETER" /\ ~driver.enabled
        /\ ~driver.known
    BY DEF Init
  <2>2. Counting
    BY <2>1 DEF Counting, Aligned, HoldSteps, EnableSteps
  <2> QED BY <2>2, InitSound, InitStaged DEF NInv
<1>2. NInv /\ [Next]_vars => NInv'
  <2> SUFFICES ASSUME NInv, [Next]_vars PROVE NInv'
    OBVIOUS
  <2>1. IInv' /\ Staged' /\ AtPosition'
    BY NextSound, StagedNext, AtPositionNext DEF NInv
  <2>2. Counting'
    BY CountingNext
  <2> QED BY <2>1, <2>2 DEF NInv
<1>3. NInv /\ [Next]_vars
        => [UsesPosition /\ inbox # <<>> /\ inbox' = Tail(inbox)
              /\ Head(inbox).type = "FEEDBACK" /\ driver'.step = "READY"
            => driver'.count = Head(inbox).pos]_vars
  <2> SUFFICES ASSUME NInv, [Next]_vars, UsesPosition, inbox # <<>>,
                      inbox' = Tail(inbox), Head(inbox).type = "FEEDBACK",
                      driver'.step = "READY"
               PROVE  driver'.count = Head(inbox).pos
    OBVIOUS
  <2>1. Receive
    BY OnlyReceiveTakes DEF NInv
  <2>2. /\ Head(inbox).pos = motor.pos
        /\ Aligned \/ driver.step = "READY" => driver'.count = motor.pos
        /\ driver.step \in {"READY", "WAIT_FOR_ENABLE"}
    BY <2>1, FeedbackCounts
  <2> QED BY <2>2 DEF Aligned, EnableSteps
<1> QED BY <1>1, <1>2, <1>3, PTL DEF Spec, CountsTurns
=============================================================================
