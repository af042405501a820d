-------------------------- MODULE MotorControl_proofs --------------------------
(***************************************************************************)
(* Proofs about Throttle and MotorControl, for every set of lever          *)
(* positions, every throttle and brake curve that gives no current at      *)
(* rest, and every input allowed to change.  Throttle on its own: type     *)
(* correctness, and that no drive current is requested before the throttle *)
(* has been pressed.  The two threads together: that the throttle thread   *)
(* is an environment MotorDrive was written for, so that what is proved of *)
(* MotorDrive holds, and that nothing drives before the throttle has been  *)
(* pressed.                                                                *)
(***************************************************************************)
EXTENDS MotorControl, MotorDrive_proofs

(* A ramp towards a current passes only through currents. *)
LEMMA RampType ==
  ASSUME NEW from \in Nat, NEW target \in Nat
  PROVE  RampStep(from, target) \subseteq Nat
  BY DEF RampStep

(* So does an interpolation between two currents. *)
LEMMA InterpolatedType ==
  ASSUME NEW from \in Nat, NEW to \in Nat
  PROVE  Interpolated(from, to) \subseteq Nat
  BY DEF Interpolated

(* The targets of the two ramps are currents; at rest they are zero. *)
LEMMA SampleTarget ==
  ASSUME throttleLevel \in ThrottleLevels, brakeLevel \in BrakeLevels,
         phaseMax \in PhaseLimits
  PROVE  /\ clampValue(throttleMap[throttleLevel], phaseMax) \in Nat
         /\ brakeMap[brakeLevel] \in Nat
         /\ phaseMax \in Nat
         /\ throttleLevel = 0 =>
              clampValue(throttleMap[throttleLevel], phaseMax) = 0
  BY CurvesAssumption, ThrottleCurrentsAssumption DEF clampValue

(* Whatever the current, Drive and Brake make a request of it. *)
LEMMA RequestType ==
  ASSUME NEW c \in Nat, throttleClampCurrent \in Nat
  PROVE  Drive(c) \in ThrottleRequest /\ Brake(c) \in ThrottleRequest
  BY ThrottleCurrentsAssumption DEF Drive, Brake, ThrottleRequest

(* The throttle thread starts with every variable of its type. *)
LEMMA ThrottleTypeInit == ThrottleInit => ThrottleTypeOK
<1> SUFFICES ASSUME ThrottleInit PROVE ThrottleTypeOK
  OBVIOUS
<1>1. Idle \in ThrottleRequest
  BY DEF Idle, ThrottleRequest
<1>2. phaseMax \in Nat
  BY ThrottleCurrentsAssumption DEF ThrottleInit
<1>3. minimize \in BOOLEAN /\ autoRegen \in BOOLEAN
  BY SavedModesAssumption, Zenon DEF ThrottleInit
<1>4. everPressed \in BOOLEAN
  BY DEF ThrottleInit
<1> QED BY <1>1, <1>2, <1>3, <1>4
        DEF ThrottleInit, ThrottleTypeOK, Steps, States

(* No step of the throttle thread leaves the types. *)
LEMMA ThrottleTypeStep ==
  ThrottleTypeOK /\ [ThrottleNext]_throttleVars => ThrottleTypeOK'
<1> SUFFICES ASSUME ThrottleTypeOK, [ThrottleNext]_throttleVars
             PROVE  ThrottleTypeOK'
  OBVIOUS
<1> USE ThrottleCurrentsAssumption
    DEF ThrottleTypeOK, inputVars, sampleVars, smoothVars, timerVars, Steps,
        States, IsOffState, ThrottleRequest
<1>1. CASE Sample
  <2>1. throttleCurrent' \in Nat /\ brakeCurrent' \in Nat
    BY <1>1, RampType, SampleTarget DEF Sample
  <2>2. throttleClampCurrent' \in Nat
    BY <1>1, SampleTarget DEF Sample
  <2>3. /\ tpc' = "power"
        /\ UNCHANGED <<inputVars, throttleState, smoothVars, timerVars, pending,
                       throttle_info>>
    BY <1>1 DEF Sample
  <2> QED BY <2>1, <2>2, <2>3
<1>2. CASE CheckPower
  BY <1>2 DEF CheckPower, PoweredOff
<1>3. CASE SwitchedOff
  <2>1. Drive(0) \in ThrottleRequest /\ Brake(brakeCurrent) \in ThrottleRequest
    BY RequestType
  <2> QED BY <1>3, <2>1 DEF SwitchedOff, Request, In
<1>4. CASE LeaveThrottle
  BY <1>4 DEF LeaveThrottle, Enter, In
<1>5. CASE ThrottleDirect
  BY <1>5 DEF ThrottleDirect, Request, In, Drive, Brake
<1>6. CASE CoastUnderTension
  BY <1>6 DEF CoastUnderTension, Request, In, Drive
<1>7. CASE StandStill
  BY <1>7 DEF StandStill, Request, In, Drive
<1>8. CASE PressSmoothly
  BY <1>8, InterpolatedType DEF PressSmoothly, Request, In, Drive
<1>9. CASE ReleasedBetween
  BY <1>9, LevelsAssumption DEF ReleasedBetween, Request, In, Drive
<1>10. CASE RampDown
  BY <1>10, InterpolatedType DEF RampDown, Request, In, Drive
<1>11. CASE StartToBrake
  BY <1>11 DEF StartToBrake, Enter, In
<1>12. CASE KeepBraking
  BY <1>12, InterpolatedType DEF KeepBraking, Request, In, Brake
<1>13. CASE EndBraking
  BY <1>13 DEF EndBraking, Enter, In
<1>14. CASE ReturnToThrottle
  BY <1>14 DEF ReturnToThrottle, Enter, In
<1>15. CASE RecheckPower
  BY <1>15 DEF RecheckPower, PoweredOff, IsOffState
<1>16. CASE ApplyRequest
  BY <1>16 DEF ApplyRequest, IsOffState
<1>17. CASE ReadInputs
  BY <1>17, LevelsAssumption DEF ReadInputs, Choices, UnchangedLocals
<1>18. CASE HandleCommand
  BY <1>18 DEF HandleCommand, Choices, UnchangedLocals
<1>19. CASE ChangeSpeed
  BY <1>19 DEF ChangeSpeed, UnchangedLocals
<1>20. CASE ShockOver
  BY <1>20 DEF ShockOver, Elapsed
<1>21. CASE RealOver
  BY <1>21 DEF RealOver, Elapsed
<1>22. CASE TransitionOver
  BY <1>22 DEF TransitionOver, Elapsed
<1>23. CASE UNCHANGED throttleVars
  BY <1>23 DEF throttleVars
<1> QED BY <1>1, <1>2, <1>3, <1>4, <1>5, <1>6, <1>7, <1>8, <1>9, <1>10,
           <1>11, <1>12, <1>13, <1>14, <1>15, <1>16, <1>17, <1>18,
           <1>19, <1>20, <1>21, <1>22, <1>23
        DEF ThrottleNext, ThrottleThread, ThrottleCompute, Around

(* The types of Throttle hold in every reachable state. *)
THEOREM ThrottleTypeCorrect == ThrottleSpec => []ThrottleTypeOK
  BY ThrottleTypeInit, ThrottleTypeStep, PTL DEF ThrottleSpec

-----------------------------------------------------------------------------
(* As long as the throttle has not been pressed, nothing the thread keeps   *)
(* between iterations can turn into a drive current: not the ramp, not the  *)
(* current of a ramp-down, not the memory of having moved by throttle, and  *)
(* not the request on its way.                                              *)
Unpressed ==
  /\ throttleLevel = 0 /\ throttleCurrent = 0
  /\ toApply = 0 /\ ~movingBecauseThrottle
  /\ ~Drives(pending) /\ ~Drives(throttle_info)

SpontaneousInv == ThrottleTypeOK /\ (~everPressed => Unpressed)

(* A bike that is started untouched requests no drive current. *)
LEMMA SpontaneousInit == ThrottleInit => SpontaneousInv
<1> SUFFICES ASSUME ThrottleInit PROVE SpontaneousInv
  OBVIOUS
<1>1. ThrottleTypeOK
  BY ThrottleTypeInit
<1>2. ~Drives(Idle)
  BY DEF Drives, Idle
<1>3. ~(throttleLevel > 0) => throttleLevel = 0
  BY LevelsAssumption DEF ThrottleInit
<1>4. ~everPressed => ~(throttleLevel > 0)
  BY Zenon DEF ThrottleInit
<1> QED BY <1>1, <1>2, <1>3, <1>4 DEF SpontaneousInv, Unpressed, ThrottleInit

(* No step of the throttle thread begins to, until the throttle is pressed. *)
LEMMA SpontaneousStep ==
  SpontaneousInv /\ [ThrottleNext]_throttleVars => SpontaneousInv'
<1> SUFFICES ASSUME SpontaneousInv, [ThrottleNext]_throttleVars
             PROVE  (~everPressed => Unpressed)'
  BY ThrottleTypeStep DEF SpontaneousInv
<1> USE LevelsAssumption
    DEF SpontaneousInv, ThrottleTypeOK, Unpressed, Drives, inputVars,
        sampleVars, smoothVars, timerVars
<1>1. CASE Sample
  <2>1. throttleLevel = 0 /\ throttleCurrent = 0 =>
          throttleCurrent' \in RampStep(0, 0)
    BY <1>1, SampleTarget DEF Sample
  <2> QED BY <1>1, <2>1 DEF Sample, RampStep
<1>2. CASE CheckPower
  BY <1>2 DEF CheckPower, PoweredOff
<1>3. CASE SwitchedOff
  BY <1>3 DEF SwitchedOff, Request, In, Drive, Brake
<1>4. CASE LeaveThrottle
  BY <1>4 DEF LeaveThrottle, Enter, In
<1>5. CASE ThrottleDirect
  BY <1>5 DEF ThrottleDirect, Request, In, Drive, Brake
<1>6. CASE CoastUnderTension
  BY <1>6 DEF CoastUnderTension, Request, In, Drive
<1>7. CASE StandStill
  BY <1>7 DEF StandStill, Request, In, Drive
<1>8. CASE PressSmoothly
  BY <1>8 DEF PressSmoothly, Request, In, Drive
<1>9. CASE ReleasedBetween
  BY <1>9 DEF ReleasedBetween, Request, In, Drive
<1>10. CASE RampDown
  BY <1>10 DEF RampDown, Request, In, Drive, Interpolated
<1>11. CASE StartToBrake
  BY <1>11 DEF StartToBrake, Enter, In
<1>12. CASE KeepBraking
  BY <1>12 DEF KeepBraking, Request, In, Brake
<1>13. CASE EndBraking
  BY <1>13 DEF EndBraking, Enter, In
<1>14. CASE ReturnToThrottle
  BY <1>14 DEF ReturnToThrottle, Enter, In
<1>15. CASE RecheckPower
  BY <1>15 DEF RecheckPower
<1>16. CASE ApplyRequest
  BY <1>16 DEF ApplyRequest
<1>17. CASE ReadInputs
  <2>1. throttleLevel' \in ThrottleLevels
    BY <1>17 DEF ReadInputs, Choices
  <2>2. ~(throttleLevel' > 0) => throttleLevel' = 0
    BY <2>1
  <2>3. ~everPressed' => ~everPressed /\ ~(throttleLevel' > 0)
    BY <1>17, Zenon DEF ReadInputs
  <2> QED BY <1>17, <2>2, <2>3 DEF ReadInputs, UnchangedLocals
<1>18. CASE HandleCommand
  BY <1>18 DEF HandleCommand, Choices, UnchangedLocals
<1>19. CASE ChangeSpeed
  BY <1>19 DEF ChangeSpeed, UnchangedLocals
<1>20. CASE ShockOver
  BY <1>20 DEF ShockOver, Elapsed
<1>21. CASE RealOver
  BY <1>21 DEF RealOver, Elapsed
<1>22. CASE TransitionOver
  BY <1>22 DEF TransitionOver, Elapsed
<1>23. CASE UNCHANGED throttleVars
  BY <1>23 DEF throttleVars
<1> QED BY <1>1, <1>2, <1>3, <1>4, <1>5, <1>6, <1>7, <1>8, <1>9, <1>10,
           <1>11, <1>12, <1>13, <1>14, <1>15, <1>16, <1>17, <1>18,
           <1>19, <1>20, <1>21, <1>22, <1>23
        DEF ThrottleNext, ThrottleThread, ThrottleCompute, Around

(* No drive current is ever requested before the throttle is pressed, for   *)
(* any levers, curves, profiles and order of events.                        *)
THEOREM NoSpontaneousDriveEver == ThrottleSpec => []NoSpontaneousDrive
<1>1. SpontaneousInv => NoSpontaneousDrive
  BY DEF SpontaneousInv, Unpressed, NoSpontaneousDrive, ThrottleTypeOK
<1> QED BY <1>1, SpontaneousInit, SpontaneousStep, PTL DEF ThrottleSpec

-----------------------------------------------------------------------------
(* The throttle thread as MotorDrive sees it *)

(* Below a current that may be requested, every current may be. *)
LEMMA RequestableBelow ==
  ASSUME NEW c \in Nat, NEW d \in Nat, Requestable(d), c <= d
  PROVE  Requestable(c) /\ c \in Currents
BY DEF Requestable

(* A ramp and an interpolation stay below the larger of their two ends. *)
LEMMA RampRequestable ==
  ASSUME NEW from \in Nat, NEW target \in Nat,
         Requestable(from), Requestable(target),
         NEW c \in RampStep(from, target) \cup Interpolated(from, target)
  PROVE  c \in Nat /\ Requestable(c)
<1>1. c \in Nat /\ (c <= from \/ c <= target)
  BY DEF RampStep, Interpolated
<1> QED BY <1>1, RequestableBelow

(* The two ends that the code names. *)
LEMMA FixedRequestable ==
  /\ Requestable(0) /\ Requestable(minCurrent)
  /\ Requestable(automaticRegenerativeBrakingCurrent)
  /\ 0 \in Currents /\ brakingMaximum \in Limits
<1>1. Requestable(0)
  BY CurrentsAssumption DEF Requestable
<1> QED BY <1>1, CurrentsAssumption, RequestsAssumption

(* What the throttle thread keeps and hands over is what MotorDrive was     *)
(* told to expect.                                                          *)
Expected(request) == /\ request.requested_current \in Currents
                     /\ request.maximum_current \in Limits
RequestsExpected ==
  /\ throttleClampCurrent \in Limits
  /\ Requestable(throttleCurrent) /\ Requestable(brakeCurrent)
  /\ Requestable(toApply)
  /\ tpc = "apply" => Expected(pending)

(* Requests for currents that may be requested are expected ones. *)
LEMMA RequestExpected ==
  ASSUME NEW c \in Nat, Requestable(c), throttleClampCurrent \in Limits
  PROVE  Expected(Drive(c)) /\ Expected(Brake(c))
<1>1. c \in Currents
  BY RequestableBelow
<1> QED BY <1>1, FixedRequestable DEF Expected, Drive, Brake

(* The currents the throttle thread starts with are zero. *)
LEMMA ExpectedInit == ThrottleInit => RequestsExpected
<1> SUFFICES ASSUME ThrottleInit PROVE RequestsExpected
  OBVIOUS
<1>1. throttleClampCurrent \in Limits
  BY RequestsAssumption DEF ThrottleInit
<1> QED BY <1>1, FixedRequestable DEF ThrottleInit, RequestsExpected

(* No step of the throttle thread comes to another current. *)
LEMMA ExpectedStep ==
  ThrottleTypeOK /\ RequestsExpected /\ [ThrottleNext]_throttleVars
    => RequestsExpected'
<1> SUFFICES ASSUME ThrottleTypeOK, RequestsExpected, [ThrottleNext]_throttleVars
             PROVE  RequestsExpected'
  OBVIOUS
<1>a. /\ throttleCurrent \in Nat /\ brakeCurrent \in Nat /\ toApply \in Nat
      /\ minCurrent \in Nat /\ automaticRegenerativeBrakingCurrent \in Nat
      /\ throttleLevel \in ThrottleLevels /\ brakeLevel \in BrakeLevels
      /\ phaseMax \in PhaseLimits /\ phaseMax \in Limits
  BY ThrottleCurrentsAssumption, RequestsAssumption DEF ThrottleTypeOK
<1>b. /\ throttleClampCurrent \in Limits /\ Requestable(throttleCurrent)
      /\ Requestable(brakeCurrent) /\ Requestable(toApply)
      /\ Requestable(0) /\ Requestable(minCurrent)
      /\ Requestable(automaticRegenerativeBrakingCurrent)
  BY FixedRequestable DEF RequestsExpected
(* A step that hands on a request, and one that does not. *)
<1>c. ASSUME UNCHANGED <<throttleCurrent, brakeCurrent, throttleClampCurrent, toApply>>,
             NEW c \in Nat, Requestable(c), pending' = Drive(c) \/ pending' = Brake(c)
      PROVE  RequestsExpected'
  <2>1. Expected(pending')
    BY <1>b, <1>c, RequestExpected
  <2> QED BY <1>b, <1>c, <2>1 DEF RequestsExpected, Expected
<1>d. ASSUME UNCHANGED <<throttleCurrent, brakeCurrent, throttleClampCurrent, toApply>>,
             tpc' # "apply" \/ UNCHANGED <<tpc, pending>>
      PROVE  RequestsExpected'
  BY <1>d DEF RequestsExpected, Expected
<1> USE DEF inputVars, sampleVars, smoothVars, timerVars, In, Request, Enter
<1>1. CASE Sample
  <2>1. /\ clampValue(throttleMap[throttleLevel], phaseMax) \in Nat
        /\ Requestable(clampValue(throttleMap[throttleLevel], phaseMax))
    <3>1. /\ throttleMap[throttleLevel] \in Nat /\ phaseMax \in Nat
          /\ Requestable(throttleMap[throttleLevel])
      BY <1>a, CurvesAssumption, ThrottleCurrentsAssumption, RequestsAssumption
    <3>2. /\ clampValue(throttleMap[throttleLevel], phaseMax) \in Nat
          /\ clampValue(throttleMap[throttleLevel], phaseMax) <= throttleMap[throttleLevel]
      BY <3>1 DEF clampValue
    <3> QED BY <3>1, <3>2, RequestableBelow
  <2>2. brakeMap[brakeLevel] \in Nat /\ Requestable(brakeMap[brakeLevel])
    BY <1>a, CurvesAssumption, RequestsAssumption
  <2>3. Requestable(throttleCurrent')
    BY <1>1, <1>a, <1>b, <2>1, RampRequestable DEF Sample
  <2>4. Requestable(brakeCurrent')
    BY <1>1, <1>a, <1>b, <2>2, RampRequestable DEF Sample
  <2>5. throttleClampCurrent' = phaseMax /\ tpc' = "power" /\ UNCHANGED toApply
    BY <1>1 DEF Sample
  <2> QED BY <1>a, <1>b, <2>3, <2>4, <2>5 DEF RequestsExpected, Requestable
<1>2. CASE CheckPower
  BY <1>2, <1>d DEF CheckPower
<1>3. CASE SwitchedOff
  BY <1>3, <1>a, <1>b, <1>c DEF SwitchedOff
<1>4. CASE LeaveThrottle \/ StartToBrake \/ EndBraking \/ ReturnToThrottle
  BY <1>4, <1>d DEF LeaveThrottle, StartToBrake, EndBraking, ReturnToThrottle
<1>5. CASE ThrottleDirect
  BY <1>5, <1>a, <1>b, <1>c DEF ThrottleDirect
<1>6. CASE CoastUnderTension \/ StandStill \/ PressSmoothly
  <2>1. /\ toApply' \in Nat /\ Requestable(toApply')
        /\ pending' = Drive(toApply')
        /\ UNCHANGED sampleVars
    <3>1. CASE CoastUnderTension \/ StandStill
      BY <3>1, <1>a, <1>b DEF CoastUnderTension, StandStill
    <3>2. CASE PressSmoothly
      BY <3>2, <1>a, <1>b, RampRequestable DEF PressSmoothly
    <3> QED BY <1>6, <3>1, <3>2
  <2>2. Expected(pending')
    BY <1>b, <2>1, RequestExpected
  <2> QED BY <1>b, <2>1, <2>2 DEF RequestsExpected, Expected, Requestable
<1>7. CASE ReleasedBetween
  BY <1>7, <1>a, <1>b, <1>c DEF ReleasedBetween
<1>8. CASE RampDown
  <2>1. PICK c \in Interpolated(toApply, 0) : pending' = Drive(c)
    BY <1>8 DEF RampDown
  <2>2. c \in Nat /\ Requestable(c)
    BY <1>a, <1>b, RampRequestable
  <2> QED BY <1>8, <1>c, <2>1, <2>2 DEF RampDown
<1>9. CASE KeepBraking
  <2> DEFINE full == IF autoRegen /\ brakeCurrent < automaticRegenerativeBrakingCurrent
                     THEN automaticRegenerativeBrakingCurrent ELSE brakeCurrent
  <2>1. full \in Nat /\ Requestable(full)
    BY <1>a, <1>b
  <2>2. PICK c : /\ c \in IF transition THEN Interpolated(0, full) ELSE {full}
                 /\ pending' = Brake(c)
    BY <1>9 DEF KeepBraking
  <2> HIDE DEF full
  <2>3. c \in Nat /\ Requestable(c)
    BY <1>b, <2>1, <2>2, RampRequestable
  <2> QED BY <1>9, <1>c, <2>2, <2>3 DEF KeepBraking
<1>10. CASE RecheckPower \/ ApplyRequest
  BY <1>10, <1>d DEF RecheckPower, ApplyRequest
<1>11. CASE Around
  BY <1>11, <1>d DEF Around, ReadInputs, HandleCommand, ChangeSpeed,
     UnchangedLocals, ShockOver, RealOver, TransitionOver, Elapsed
<1>12. CASE UNCHANGED throttleVars
  BY <1>12, <1>d DEF throttleVars
<1> QED BY <1>1, <1>2, <1>3, <1>4, <1>5, <1>6, <1>7, <1>8, <1>9, <1>10,
           <1>11, <1>12
        DEF ThrottleNext, ThrottleThread, ThrottleCompute

-----------------------------------------------------------------------------
(* The two threads together *)

(* What the actions of the composition are for either thread. *)
LEMMA ControlForThrottle ==
  ASSUME [ControlNext]_controlVars
  PROVE  \/ ThrottleNext
         \/ UNCHANGED throttleOnlyVars
<1>1. CASE HandOver \/ Compute
  BY <1>1 DEF HandOver, Compute, ThrottleNext, ThrottleThread
<1>2. CASE Command
  BY <1>2 DEF Command
<1>3. CASE Surroundings
  BY <1>3 DEF Surroundings, ThrottleNext
<1> QED BY <1>1, <1>2, <1>3 DEF ControlNext, controlVars

(* The request does not change while it is computed. *)
LEMMA ComputeKeepsRequest == ThrottleCompute => throttle_info' = throttle_info
BY DEF ThrottleCompute, Sample, CheckPower, SwitchedOff, LeaveThrottle,
   ThrottleDirect, CoastUnderTension, StandStill, PressSmoothly,
   ReleasedBetween, RampDown, StartToBrake, KeepBraking, EndBraking, ReturnToThrottle, RecheckPower, Enter

(* Nor do the inputs and the timers write it. *)
LEMMA AroundKeepsRequest == Around => throttle_info' = throttle_info
BY DEF Around, ReadInputs, HandleCommand, ChangeSpeed, UnchangedLocals,
   ShockOver, RealOver, TransitionOver, Elapsed

(* Every step of the two threads is one that MotorDrive allows.  Handing a  *)
(* request over is what Apply_Environment stands for.                       *)
LEMMA ControlForDrive ==
  ThrottleTypeOK /\ RequestsExpected /\ [ControlNext]_controlVars => [Next]_vars
<1> SUFFICES ASSUME ThrottleTypeOK, RequestsExpected, [ControlNext]_controlVars
             PROVE  [Next]_vars
  OBVIOUS
<1> DEFINE DriveStays == UNCHANGED <<mtx, flagVars, splitVars, motorVars, envVars,
                                     pc, leftover>>
<1>1. ASSUME UNCHANGED driveOnlyVars PROVE DriveStays
  BY <1>1 DEF driveOnlyVars, flagVars, splitVars, motorVars, envVars
<1>2. ASSUME DriveStays, throttle_info' = throttle_info PROVE UNCHANGED vars
  BY <1>2 DEF vars, requestVars
<1>3. CASE HandOver
  <2>1. mtx = "free" /\ tpc = "apply" /\ throttle_info' = pending /\ DriveStays
    BY <1>1, <1>3 DEF HandOver, ApplyRequest
  <2>2. /\ pending \in ThrottleRequest
        /\ pending.requested_current \in Currents
        /\ pending.maximum_current \in Limits
    BY <2>1 DEF ThrottleTypeOK, RequestsExpected, Expected
  <2> DEFINE acc == pending.is_accelerating
             c   == pending.requested_current
             max == pending.maximum_current
  <2>3. /\ pending = [is_accelerating |-> acc, requested_current |-> c,
                      maximum_current |-> max]
        /\ acc \in BOOLEAN
    BY <2>2 DEF ThrottleRequest
  <2>4. Apply([is_accelerating |-> acc, requested_current |-> c,
               maximum_current |-> max])
    BY <2>1, <2>3 DEF Apply
  <2> HIDE DEF acc, c, max
  <2>5. \E a \in BOOLEAN, b \in Currents, d \in Limits :
          Apply([is_accelerating |-> a, requested_current |-> b,
                 maximum_current |-> d])
    <3>1. acc \in BOOLEAN /\ c \in Currents /\ max \in Limits
      BY <2>2, <2>3 DEF c, max
    <3> QED BY <2>4, <3>1
  <2>6. Apply_Environment
    BY <2>1, <2>5 DEF Apply_Environment
  <2> QED BY <2>6 DEF Next
<1>4. CASE Compute
  BY <1>1, <1>2, <1>4, ComputeKeepsRequest DEF Compute
<1>5. CASE Command
  BY <1>5 DEF Command, Next
<1>6. CASE Around /\ UNCHANGED driveOnlyVars
  BY <1>1, <1>2, <1>6, AroundKeepsRequest
<1>7. CASE SetProfile \/ \E m \in MotorIDs : CommandTimeout(m)
  BY <1>7 DEF Next
<1>8. CASE UNCHANGED controlVars
  BY <1>1, <1>2, <1>8 DEF controlVars
<1> QED BY <1>3, <1>4, <1>5, <1>6, <1>7, <1>8 DEF ControlNext, Surroundings

(* What both threads keep: the types on both sides, and currents that       *)
(* MotorDrive expects.                                                      *)
ControlInv == ThrottleTypeOK /\ RequestsExpected /\ TypeOK

(* Both threads start as each of them does on its own. *)
LEMMA ControlInvInit == ControlInit => ControlInv
BY ThrottleTypeInit, ExpectedInit, TypeInit DEF ControlInit, ControlInv

(* Every step is one of the throttle thread or one of the vesc thread. *)
LEMMA ControlInvStep == ControlInv /\ [ControlNext]_controlVars => ControlInv'
<1> SUFFICES ASSUME ControlInv, [ControlNext]_controlVars PROVE ControlInv'
  OBVIOUS
<1>1. TypeOK'
  BY ControlForDrive, TypeStep DEF ControlInv
<1>2. CASE ThrottleNext
  BY <1>1, <1>2, ThrottleTypeStep, ExpectedStep DEF ControlInv
<1>3. CASE UNCHANGED throttleOnlyVars
  <2>1. RequestsExpected'
    BY <1>3 DEF throttleOnlyVars, ControlInv, RequestsExpected, Expected
  <2>2. throttle_info' \in ThrottleRequest
    BY <1>1 DEF TypeOK
  <2>3. ThrottleTypeOK'
    BY <1>3, <2>2 DEF throttleOnlyVars, ControlInv, ThrottleTypeOK, IsOffState
  <2> QED BY <1>1, <2>1, <2>3 DEF ControlInv
<1> QED BY <1>2, <1>3, ControlForThrottle

(* The two threads implement the vesc thread with an arbitrary requester:   *)
(* whatever the levers, the curves and the settings, the throttle thread    *)
(* asks only for what MotorDrive expects, and only while the mutex is free. *)
THEOREM TwoThreadsImplementDrive == ControlSpec => ImplementsMotorDrive
<1>1. ControlInv /\ [ControlNext]_controlVars => [Next]_vars
  BY ControlForDrive DEF ControlInv
<1>2. ControlInit => Init
  BY DEF ControlInit
<1> QED BY <1>1, <1>2, ControlInvInit, ControlInvStep, PTL
        DEF ControlSpec, ImplementsMotorDrive, Spec

(* So the bike with its real throttle thread has what is proved of          *)
(* MotorDrive: on a reliable wire no motor drives while another brakes and  *)
(* there is a moment of coasting in between, and every current that reaches *)
(* a motor is of the kind that the request says.                            *)
THEOREM TwoThreadsKeepInterlock ==
  ControlSpec => /\ []NoOpposingMotors
                 /\ ImplementsInterlock
                 /\ CommandsFollowRequest
BY TwoThreadsImplementDrive, NoOpposing, Refinement, CommandsKeepMode, PTL
   DEF ImplementsMotorDrive

-----------------------------------------------------------------------------
(* Nothing drives before the throttle is pressed *)

(* The vesc thread's side: what it has computed for the first motor is      *)
(* zero, and for the second one too unless there is a leftover to add.      *)
MotorsUnpressed ==
  /\ primaryCurrent = 0
  /\ ~Advanced => secondaryCurrent = 0
  /\ \A m \in Driven : Advanced /\ m = Accelerators[2]

UnpressedInv ==
  /\ ControlInv /\ RequestHeld
  /\ ~everPressed => Unpressed /\ MotorsUnpressed

(* A request for no drive current is divided into nothing and the leftover. *)
LEMMA SplitOfNothing ==
  ASSUME TypeOK, throttle_info.requested_current = 0, MotorsUnpressed
  PROVE  /\ Effective = 0
         /\ Split(0)[1] = 0
         /\ ~Advanced => Split(0)[2] = 0
<1>1. Effective = 0
  BY DEF TypeOK, ThrottleRequest, Effective, Clamped
<1>2. SecondaryShare(0) = 0
  BY RatioAssumption DEF SecondaryShare
<1>3. settings.dualMotorDriveStyle \in 0..3
  BY DEF TypeOK, Settings
<1> HIDE DEF SecondaryShare
<1>4. Split(0)[1] = 0
  BY <1>2, <1>3 DEF Split, Style, MotorsUnpressed
<1>5. ~Advanced => Split(0)[2] = 0
  BY <1>3 DEF Split, Style, MotorsUnpressed, Advanced
<1> QED BY <1>1, <1>4, <1>5

(* The steps of the vesc thread, and those of its environment. *)
LEMMA MotorsUnpressedStep ==
  ASSUME TypeOK, RequestHeld, MotorsUnpressed, ~Drives(throttle_info), [Next]_vars
  PROVE  MotorsUnpressed'
<1>a. /\ drive \in [MotorIDs -> Nat] /\ settings' = settings
      /\ Accelerators' = Accelerators /\ Advanced' = Advanced
  BY SettingsStay DEF TypeOK, Accelerators, Advanced
<1>b. throttle_info.is_accelerating => throttle_info.requested_current = 0
  BY DEF Drives, TypeOK, ThrottleRequest
<1>c. ASSUME UNCHANGED <<splitVars, drive>> PROVE MotorsUnpressed'
  BY <1>a, <1>c DEF MotorsUnpressed, Driven, splitVars
(* A command that is obeyed gives one motor its current; a lost one does    *)
(* nothing.                                                                 *)
<1>d. ASSUME UNCHANGED splitVars, NEW k, NEW c,
             c = 0 \/ (Advanced /\ k = Accelerators[2]),
             drive' = [drive EXCEPT ![k] = c] \/ drive' = drive
      PROVE  MotorsUnpressed'
  BY <1>a, <1>d DEF MotorsUnpressed, Driven, splitVars
<1> HIDE DEF Accelerators, Advanced
<1> USE DEF Goto, Unlock, setCurrent, setBrakeCurrent, Lost, motorVars
<1>1. CASE StartAccelerating \/ StartBraking \/ TelemetryAnswered \/ TelemetryFailed
             \/ Apply_Environment \/ SetProfile \/ UNCHANGED vars
  BY <1>1, <1>c DEF StartAccelerating, StartBraking, TelemetryAnswered,
     TelemetryFailed, Apply_Environment, SetProfile, vars
<1>2. CASE ZeroBrake1 \/ ZeroBrake2 \/ Brake1 \/ Brake2
  BY <1>2, <1>d DEF ZeroBrake1, ZeroBrake2, Brake1, Brake2
<1>3. CASE BrakeSingle
  BY <1>3, <1>d DEF BrakeSingle
<1>4. CASE ZeroDrive1 \/ ZeroDrive2
  BY <1>4, <1>d DEF ZeroDrive1, ZeroDrive2
<1>5. CASE ChooseSplit
  <2>1. throttle_info.requested_current = 0
    BY <1>5, <1>b DEF ChooseSplit, RequestHeld, AccelPhase
  <2>2. /\ UNCHANGED drive
        /\ \/ UNCHANGED splitVars
           \/ primaryCurrent' = Split(Effective)[1] /\ secondaryCurrent' = Split(Effective)[2]
    BY <1>5 DEF ChooseSplit
  <2>3. primaryCurrent' = 0 /\ (~Advanced => secondaryCurrent' = 0)
    BY <2>1, <2>2, SplitOfNothing DEF MotorsUnpressed, splitVars
  <2> QED BY <1>a, <2>2, <2>3 DEF MotorsUnpressed, Driven
<1>6. CASE Drive1
  <2>1. primaryCurrent = 0
    BY DEF MotorsUnpressed
  <2> QED BY <1>6, <1>d, <2>1 DEF Drive1
<1>7. CASE Drive2
  <2>1. secondaryCurrent = 0 \/ Advanced
    BY DEF MotorsUnpressed
  <2> QED BY <1>7, <1>d, <2>1 DEF Drive2
<1>8. CASE DriveSingle
  <2>1. throttle_info.requested_current = 0
    BY <1>8, <1>b DEF DriveSingle, RequestHeld, AccelPhase
  <2> QED BY <1>8, <1>d, <2>1 DEF DriveSingle
<1>9. CASE \E m \in MotorIDs : CommandTimeout(m)
  BY <1>9, <1>d DEF CommandTimeout
<1> QED BY <1>1, <1>2, <1>3, <1>4, <1>5, <1>6, <1>7, <1>8, <1>9 DEF Next, VescThread

(* The vesc thread changes the request only to clamp it. *)
LEMMA CommandKeepsRequest ==
  ASSUME TypeOK, ~Drives(throttle_info), VescThread
  PROVE  ~Drives(throttle_info)'
<1>1. CASE ChooseSplit
  <2>1. throttle_info \in ThrottleRequest
    BY DEF TypeOK
  <2>2. ~throttle_info.is_accelerating \/ throttle_info.requested_current = 0
    BY <2>1 DEF Drives, ThrottleRequest
  <2>3. throttle_info.requested_current = 0 => Effective = 0
    BY <2>1 DEF Effective, Clamped, ThrottleRequest
  <2>4. throttle_info' = [throttle_info EXCEPT !.requested_current = Effective]
          \/ throttle_info' = throttle_info
    BY <1>1 DEF ChooseSplit
  <2>5. /\ throttle_info'.is_accelerating = throttle_info.is_accelerating
        /\ throttle_info.requested_current = 0 => throttle_info'.requested_current = 0
    BY <2>1, <2>3, <2>4 DEF ThrottleRequest
  <2> QED BY <2>2, <2>5 DEF Drives
<1>2. CASE throttle_info' = throttle_info
  BY <1>2 DEF Drives
<1> QED
  BY <1>1, <1>2 DEF VescThread, StartAccelerating, ZeroBrake1, ZeroBrake2,
     Drive1, Drive2, DriveSingle, StartBraking, ZeroDrive1, ZeroDrive2,
     BrakeSingle, Brake1, Brake2, TelemetryAnswered, TelemetryFailed,
     requestVars, Unlock

(* The throttle thread's side. *)
LEMMA UnpressedStep ==
  ASSUME ControlInv, Unpressed, ~everPressed, [ControlNext]_controlVars, ~everPressed'
  PROVE  Unpressed'
<1>1. CASE ThrottleNext
  <2>1. SpontaneousInv
    BY DEF SpontaneousInv, ControlInv
  <2> QED BY <1>1, <2>1, SpontaneousStep DEF SpontaneousInv
<1>2. ASSUME UNCHANGED throttleOnlyVars, ~Drives(throttle_info)' PROVE Unpressed'
  BY <1>2 DEF throttleOnlyVars, Unpressed, Drives
<1>3. CASE HandOver \/ Compute \/ (Around /\ UNCHANGED driveOnlyVars)
  BY <1>1, <1>3 DEF HandOver, Compute, ThrottleNext, ThrottleThread
<1>4. CASE Command
  BY <1>2, <1>4, CommandKeepsRequest DEF Command, ControlInv, Unpressed
<1>5. CASE UNCHANGED <<throttleOnlyVars, throttle_info>>
  BY <1>2, <1>5 DEF Unpressed, Drives
<1>6. CASE (SetProfile \/ \E m \in MotorIDs : CommandTimeout(m))
             /\ UNCHANGED throttleOnlyVars
  BY <1>5, <1>6 DEF SetProfile, CommandTimeout, requestVars
<1>7. CASE UNCHANGED controlVars
  BY <1>5, <1>7 DEF controlVars
<1> QED BY <1>3, <1>4, <1>6, <1>7 DEF ControlNext, Surroundings

(* What has been pressed stays pressed. *)
LEMMA PressedStays ==
  ASSUME ControlInv, [ControlNext]_controlVars, ~everPressed' PROVE ~everPressed
<1>1. everPressed \in BOOLEAN
  BY Zenon DEF ControlInv, ThrottleTypeOK
<1>2. everPressed' = everPressed \/ everPressed' = (everPressed \/ throttleLevel' > 0)
  <2>1. CASE UNCHANGED throttleOnlyVars
    BY <2>1 DEF throttleOnlyVars
  <2>2. CASE UNCHANGED inputVars \/ ReleasedBetween
    BY <2>2 DEF inputVars, ReleasedBetween
  <2>3. CASE ThrottleThread
    BY <2>2, <2>3 DEF ThrottleThread, ThrottleCompute, Sample, CheckPower,
       SwitchedOff, LeaveThrottle, ThrottleDirect, CoastUnderTension, StandStill,
       PressSmoothly, ReleasedBetween, RampDown, StartToBrake, KeepBraking,
       EndBraking, ReturnToThrottle, RecheckPower, ApplyRequest
  <2>4. CASE Around
    BY <2>2, <2>4, Zenon DEF Around, ReadInputs, HandleCommand, ChangeSpeed,
       ShockOver, RealOver, TransitionOver, Elapsed
  <2> QED BY <2>1, <2>3, <2>4, ControlForThrottle DEF ThrottleNext
<1> QED BY <1>1, <1>2, Zenon

(* No motor drives when the backend starts. *)
LEMMA UnpressedInit == ControlInit => UnpressedInv
<1> SUFFICES ASSUME ControlInit PROVE UnpressedInv
  OBVIOUS
<1>1. ControlInv /\ RequestHeld
  BY ControlInvInit DEF ControlInit, Init, RequestHeld, AccelPhase, BrakePhase
<1>2. ~everPressed => Unpressed
  BY SpontaneousInit DEF ControlInit, SpontaneousInv
<1>3. MotorsUnpressed
  BY DEF ControlInit, Init, MotorsUnpressed, Driven
<1> QED BY <1>1, <1>2, <1>3 DEF UnpressedInv

(* The two sides together: what is not requested is not driven. *)
LEMMA UnpressedNext == UnpressedInv /\ [ControlNext]_controlVars => UnpressedInv'
<1> SUFFICES ASSUME UnpressedInv, [ControlNext]_controlVars PROVE UnpressedInv'
  OBVIOUS
<1>1. ControlInv /\ RequestHeld /\ TypeOK /\ [Next]_vars
  BY ControlForDrive DEF UnpressedInv, ControlInv
<1>2. ControlInv' /\ RequestHeld'
  BY <1>1, ControlInvStep, HeldStep
<1>3. ASSUME ~everPressed' PROVE Unpressed' /\ MotorsUnpressed'
  <2>1. ~everPressed /\ Unpressed /\ MotorsUnpressed
    BY <1>1, <1>3, PressedStays DEF UnpressedInv
  <2>2. Unpressed'
    BY <1>1, <1>3, <2>1, UnpressedStep
  <2>3. MotorsUnpressed'
    BY <1>1, <2>1, MotorsUnpressedStep DEF Unpressed
  <2> QED BY <2>2, <2>3
<1> QED BY <1>2, <1>3, Zenon DEF UnpressedInv

(* Before the throttle has left its rest no motor drives, but for the       *)
(* leftover current of the ADVANCED styles: for any levers, curves,         *)
(* settings and profile changes, on any wire.                               *)
THEOREM NothingDrivesBeforeThrottle == ControlSpec => []NothingDrivesUnpressed
<1>1. UnpressedInv => NothingDrivesUnpressed
  BY Zenon DEF UnpressedInv, MotorsUnpressed, NothingDrivesUnpressed
<1> QED BY <1>1, UnpressedInit, UnpressedNext, PTL DEF ControlSpec

=============================================================================
