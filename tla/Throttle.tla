------------------------------ MODULE Throttle ------------------------------
(***************************************************************************)
(* throttleFunction (backend/main.cpp): the thread that turns the throttle *)
(* and brake levers into a requested current, about a hundred times a      *)
(* second.  One iteration samples the levers, checks the power switch,     *)
(* runs one case of the state machine and hands the request over; the      *)
(* other threads may change any input between two of these steps, because  *)
(* nothing guards the globals it reads.                                    *)
(*                                                                         *)
(* Time is not measured.  A transition timer is running or has elapsed, an *)
(* interpolation over a running timer may yield any value between its end  *)
(* points, and a ramp moves some way towards its target in an iteration.   *)
(***************************************************************************)
EXTENDS ThrottleInfo

CONSTANTS
  ThrottleLevels,   \* positions of the throttle, 0 when released
  BrakeLevels,      \* positions of the brake lever, 0 when released
  throttleMap,      \* the current a throttle position stands for
  brakeMap,         \* the current a brake position stands for, at most
                    \*   maxBrakingCurrent
  PhaseLimits,      \* C_PHASE_CURRENT_MAX of the power profiles
  minCurrent,       \* keeps the drivetrain under tension (5.5 A)
  automaticRegenerativeBrakingCurrent,  \* 12 A
  brakingMaximum,   \* the maximum_current of a braking request (100 A)
  SavedModes,       \* <<minimize, autoRegen>> as the settings file may say
  MayChange         \* the inputs that may change while the thread runs

Inputs == {"powerOn", "charging", "throttleLevel", "brakeLevel", "moving",
           "minimize", "autoRegen", "profile"}

ASSUME LevelsAssumption ==
  /\ ThrottleLevels \subseteq Nat /\ 0 \in ThrottleLevels
  /\ BrakeLevels \subseteq Nat /\ 0 \in BrakeLevels
ASSUME CurvesAssumption ==
  /\ throttleMap \in [ThrottleLevels -> Nat] /\ throttleMap[0] = 0
  /\ brakeMap \in [BrakeLevels -> Nat] /\ brakeMap[0] = 0
ASSUME ThrottleCurrentsAssumption ==
  /\ PhaseLimits \subseteq Nat
  /\ minCurrent \in Nat
  /\ automaticRegenerativeBrakingCurrent \in Nat
  /\ brakingMaximum \in Nat
ASSUME SavedModesAssumption == SavedModes \subseteq BOOLEAN \X BOOLEAN
ASSUME MayChangeAssumption == MayChange \subseteq Inputs

States == {"POWER_OFF_OR_CHARGING", "THROTTLE", "BRAKING",
          "THROTTLE_TRANSITION_TO_BRAKING", "BRAKING_TRANSITION_TO_THROTTLE",
          "POWER_OFF_OR_CHARGING_BRAKING"}

VARIABLES
  powerOn, charging,        \* power switch, and charging as told over IPC
  throttleLevel, brakeLevel,
  moving,                   \* speed_kmh > minSpeedKmh
  minimize,                 \* settings.minimizeDrivetrainBacklash
  autoRegen,                \* settings.automaticRegenerativeBraking
  phaseMax,                 \* C_PHASE_CURRENT_MAX of the current profile
  tpc,                      \* the next step of the iteration
  throttleState,
  throttleCurrent,          \* output of throttleRamp, kept between iterations
  brakeCurrent,             \* output of brakeRamp
  throttleClampCurrent,
  toApply,                  \* throttleCurrentToApply
  movingBecauseThrottle,
  shock, real, transition,  \* running timers: throttleShockCurrent,
                            \*   throttleReal, and the one of the state being
                            \*   entered (throttleToBrake, toRealBrake)
  pending,                  \* the request on its way to ThrottleApply...
  everPressed               \* history: the throttle has left its rest

inputVars == <<powerOn, charging, throttleLevel, brakeLevel, moving, minimize,
               autoRegen, phaseMax, everPressed>>
sampleVars == <<throttleCurrent, brakeCurrent, throttleClampCurrent>>
smoothVars == <<toApply, movingBecauseThrottle>>
timerVars  == <<shock, real, transition>>
throttleVars == <<inputVars, tpc, throttleState, sampleVars, smoothVars,
                  timerVars, pending, throttle_info>>

-----------------------------------------------------------------------------
(* RampLimiter.getValue: towards the target, at least a little, never past *)
RampStep(from, target) ==
  IF from = target THEN {target}
  ELSE IF from < target THEN (from + 1)..target
  ELSE target..(from - 1)

(* ValueTransition.getValueDifference while its timer is running *)
Interpolated(from, to) ==
  IF from <= to THEN from..to ELSE to..from

clampValue(c, max) == IF c < max THEN c ELSE max

Drive(c) == [is_accelerating |-> TRUE, requested_current |-> c,
             maximum_current |-> throttleClampCurrent]
Brake(c) == [is_accelerating |-> FALSE, requested_current |-> c,
             maximum_current |-> brakingMaximum]

PoweredOff == ~powerOn \/ charging

-----------------------------------------------------------------------------
(* Before the switch *)

Sample ==
  /\ tpc = "sample"
  /\ throttleCurrent' \in RampStep(throttleCurrent,
                            clampValue(throttleMap[throttleLevel], phaseMax))
  /\ brakeCurrent' \in RampStep(brakeCurrent, brakeMap[brakeLevel])
  /\ throttleClampCurrent' = phaseMax
  /\ tpc' = "power"
  /\ UNCHANGED <<inputVars, throttleState, smoothVars, timerVars, pending,
                 throttle_info>>

(* Mutant: the power switch is not looked at while driving. *)
CheckPower_NotInThrottle ==
  /\ tpc = "power"
  /\ throttleState' = IF ~PoweredOff \/ throttleState = "THROTTLE"
                      THEN throttleState
                      ELSE "POWER_OFF_OR_CHARGING"
  /\ tpc' = "switch"
  /\ UNCHANGED <<inputVars, sampleVars, smoothVars, timerVars, pending,
                 throttle_info>>

CheckPower ==
  /\ tpc = "power"
  /\ throttleState' = IF ~PoweredOff THEN throttleState
                      ELSE IF brakeLevel > 0 THEN "POWER_OFF_OR_CHARGING_BRAKING"
                      ELSE "POWER_OFF_OR_CHARGING"
  /\ tpc' = "switch"
  /\ UNCHANGED <<inputVars, sampleVars, smoothVars, timerVars, pending,
                 throttle_info>>

-----------------------------------------------------------------------------
(* The cases of the switch.  Each ends the iteration in this state, or     *)
(* leaves a request to hand over.                                          *)

In(state) == tpc = "switch" /\ throttleState = state

Request(request) ==
  /\ pending' = request
  /\ tpc' = "apply"

Enter(state) ==
  /\ throttleState' = state
  /\ tpc' = "sample"
  /\ UNCHANGED <<pending, throttle_info>>

SwitchedOff ==
  /\ \/ In("POWER_OFF_OR_CHARGING") /\ Request(Drive(0))
     \/ In("POWER_OFF_OR_CHARGING_BRAKING") /\ Request(Brake(brakeCurrent))
  /\ UNCHANGED <<inputVars, throttleState, sampleVars, smoothVars, timerVars,
                 throttle_info>>

RegenDue == autoRegen /\ throttleLevel = 0 /\ moving

(* THROTTLE, from which the brake lever or coasting leads to braking *)
LeaveThrottle ==
  /\ In("THROTTLE")
  /\ IF minimize THEN brakeLevel > 0 ELSE RegenDue
  /\ Enter("THROTTLE_TRANSITION_TO_BRAKING")
  /\ transition' = TRUE
  /\ UNCHANGED <<inputVars, sampleVars, smoothVars, shock, real>>

(* THROTTLE without minimizeDrivetrainBacklash *)
ThrottleDirect ==
  /\ In("THROTTLE")
  /\ ~minimize /\ ~RegenDue
  /\ Request(IF brakeLevel = 0 THEN Drive(throttleCurrent)
                               ELSE Brake(brakeCurrent))
  /\ UNCHANGED <<inputVars, throttleState, sampleVars, smoothVars, timerVars,
                 throttle_info>>

(* Mutant: rolling is taken for having moved by throttle. *)
CoastUnderTension_AlwaysTense ==
  /\ In("THROTTLE")
  /\ minimize /\ brakeLevel = 0 /\ throttleLevel = 0 /\ moving
  /\ toApply' = minCurrent
  /\ IF autoRegen
     THEN /\ throttleState' = "THROTTLE_TRANSITION_TO_BRAKING"
          /\ transition' = TRUE
     ELSE UNCHANGED <<throttleState, transition>>
  /\ Request(Drive(toApply'))
  /\ UNCHANGED <<inputVars, sampleVars, movingBecauseThrottle, shock, real,
                 throttle_info>>

(* THROTTLE with minimizeDrivetrainBacklash: throttle released, rolling *)
CoastUnderTension ==
  /\ In("THROTTLE")
  /\ minimize /\ brakeLevel = 0 /\ throttleLevel = 0 /\ moving
  /\ toApply' = IF movingBecauseThrottle THEN minCurrent ELSE 0
  /\ IF autoRegen
     THEN /\ throttleState' = "THROTTLE_TRANSITION_TO_BRAKING"
          /\ transition' = TRUE
     ELSE UNCHANGED <<throttleState, transition>>
  /\ Request(Drive(toApply'))
  /\ UNCHANGED <<inputVars, sampleVars, movingBecauseThrottle, shock, real,
                 throttle_info>>

(* ... throttle released, standing: the next start takes up the slack *)
StandStill ==
  /\ In("THROTTLE")
  /\ minimize /\ brakeLevel = 0 /\ throttleLevel = 0 /\ ~moving
  /\ toApply' = 0
  /\ movingBecauseThrottle' = FALSE
  /\ shock' = TRUE
  /\ Request(Drive(0))
  /\ UNCHANGED <<inputVars, throttleState, sampleVars, real, transition,
                 throttle_info>>

(* Mutant: the second transition is restarted in every iteration. *)
PressSmoothly_Restarts ==
  /\ In("THROTTLE")
  /\ minimize /\ brakeLevel = 0 /\ throttleLevel > 0
  /\ movingBecauseThrottle' = TRUE
  /\ real' = TRUE
  /\ toApply' \in IF shock THEN Interpolated(0, minCurrent)
                  ELSE Interpolated(minCurrent, throttleCurrent)
  /\ Request(Drive(toApply'))
  /\ UNCHANGED <<inputVars, throttleState, sampleVars, shock, transition,
                 throttle_info>>

(* ... throttle pressed: slack, then tension, then the current asked for *)
PressSmoothly ==
  /\ In("THROTTLE")
  /\ minimize /\ brakeLevel = 0 /\ throttleLevel > 0
  /\ movingBecauseThrottle' = TRUE
  /\ real' = (shock \/ real)
  /\ toApply' \in
       IF shock THEN Interpolated(0, minCurrent)
       ELSE IF throttleCurrent < minCurrent THEN {minCurrent}
       ELSE IF real THEN Interpolated(minCurrent, throttleCurrent)
       ELSE {throttleCurrent}
  /\ Request(Drive(toApply'))
  /\ UNCHANGED <<inputVars, throttleState, sampleVars, shock, transition,
                 throttle_info>>

(* ... throttle released between the two places that read it               *)
(* (main.cpp:477, 498): the current of the iteration before is asked for   *)
(* once more, and nothing else changes                                     *)
ReleasedBetween ==
  /\ In("THROTTLE")
  /\ minimize /\ brakeLevel = 0 /\ throttleLevel > 0
  /\ "throttleLevel" \in MayChange
  /\ throttleLevel' = 0
  /\ Request(Drive(toApply))
  /\ UNCHANGED <<powerOn, charging, brakeLevel, moving, minimize, autoRegen,
                 phaseMax, everPressed, throttleState, sampleVars, smoothVars,
                 timerVars, throttle_info>>

RampDown ==
  /\ In("THROTTLE_TRANSITION_TO_BRAKING")
  /\ transition
  /\ \E c \in Interpolated(toApply, 0) : Request(Drive(c))
  /\ UNCHANGED <<inputVars, throttleState, sampleVars, smoothVars, timerVars,
                 throttle_info>>

StartToBrake ==
  /\ In("THROTTLE_TRANSITION_TO_BRAKING")
  /\ ~transition
  /\ Enter("BRAKING")
  /\ transition' = TRUE
  /\ UNCHANGED <<inputVars, sampleVars, smoothVars, shock, real>>

(* Mutants: braking ends although the lever is held; braking does not end   *)
(* when the bike stands.                                                    *)
BrakingOver_LeverIgnored ==
  throttleLevel # 0 \/ ~moving \/ (minimize /\ ~autoRegen)
BrakingOver_SpeedIgnored ==
  /\ brakeLevel = 0
  /\ throttleLevel # 0 \/ (minimize /\ ~autoRegen)

BrakingOver ==
  /\ brakeLevel = 0
  /\ throttleLevel # 0 \/ ~moving \/ (minimize /\ ~autoRegen)

KeepBraking ==
  /\ In("BRAKING")
  /\ ~BrakingOver
  /\ LET full == IF autoRegen /\ brakeCurrent < automaticRegenerativeBrakingCurrent
                 THEN automaticRegenerativeBrakingCurrent
                 ELSE brakeCurrent
     IN  \E c \in IF transition THEN Interpolated(0, full) ELSE {full} :
           Request(Brake(c))
  /\ UNCHANGED <<inputVars, throttleState, sampleVars, smoothVars, timerVars,
                 throttle_info>>

EndBraking ==
  /\ In("BRAKING")
  /\ BrakingOver
  /\ Enter("BRAKING_TRANSITION_TO_THROTTLE")
  /\ UNCHANGED <<inputVars, sampleVars, smoothVars, timerVars>>

ReturnToThrottle ==
  /\ In("BRAKING_TRANSITION_TO_THROTTLE")
  /\ Enter("THROTTLE")
  /\ shock' = TRUE
  /\ UNCHANGED <<inputVars, sampleVars, smoothVars, real, transition>>

-----------------------------------------------------------------------------
(* After the switch *)

IsOffState == throttleState \in {"POWER_OFF_OR_CHARGING",
                                 "POWER_OFF_OR_CHARGING_BRAKING"}

(* Mutant: every state looks at the power switch again. *)
ApplyRequest_AlwaysRecheck ==
  /\ tpc = "apply"
  /\ throttle_info' = pending
  /\ tpc' = "recheck"
  /\ UNCHANGED <<inputVars, throttleState, sampleVars, smoothVars, timerVars,
                 pending>>

(* ThrottleApplyThrottle, ThrottleApplyBraking: all three fields at once *)
ApplyRequest ==
  /\ tpc = "apply"
  /\ throttle_info' = pending
  /\ tpc' = IF IsOffState THEN "recheck" ELSE "sample"
  /\ UNCHANGED <<inputVars, throttleState, sampleVars, smoothVars, timerVars,
                 pending>>

(* Only the two off states look at the power switch again. *)
RecheckPower ==
  /\ tpc = "recheck"
  /\ throttleState' = IF PoweredOff THEN throttleState ELSE "THROTTLE"
  /\ tpc' = "sample"
  /\ UNCHANGED <<inputVars, sampleVars, smoothVars, timerVars, pending,
                 throttle_info>>

ThrottleCompute ==
  \/ Sample \/ CheckPower \/ SwitchedOff
  \/ LeaveThrottle \/ ThrottleDirect
  \/ CoastUnderTension \/ StandStill \/ PressSmoothly \/ ReleasedBetween
  \/ RampDown \/ StartToBrake \/ KeepBraking \/ EndBraking \/ ReturnToThrottle
  \/ RecheckPower

ThrottleThread == ThrottleCompute \/ ApplyRequest

-----------------------------------------------------------------------------
(* The other threads and the rider *)

UnchangedLocals == UNCHANGED <<tpc, throttleState, sampleVars, smoothVars,
                               timerVars, pending, throttle_info>>

(* The values an input may take next; one that may not change keeps its own *)
Choices(input, current, values) ==
  IF input \in MayChange THEN values ELSE {current}

(* The main loop reads the levers and the power switch. *)
ReadInputs ==
  /\ powerOn' \in Choices("powerOn", powerOn, BOOLEAN)
  /\ throttleLevel' \in Choices("throttleLevel", throttleLevel, ThrottleLevels)
  /\ brakeLevel' \in Choices("brakeLevel", brakeLevel, BrakeLevels)
  /\ everPressed' = (everPressed \/ throttleLevel' > 0)
  /\ UNCHANGED <<charging, moving, minimize, autoRegen, phaseMax>>
  /\ UnchangedLocals

(* The IPC thread carries out a command of the rider's display. *)
HandleCommand ==
  /\ charging' \in Choices("charging", charging, BOOLEAN)
  /\ minimize' \in Choices("minimize", minimize, BOOLEAN)
  /\ autoRegen' \in Choices("autoRegen", autoRegen, BOOLEAN)
  /\ phaseMax' \in Choices("profile", phaseMax, PhaseLimits)
  /\ UNCHANGED <<powerOn, throttleLevel, brakeLevel, moving, everPressed>>
  /\ UnchangedLocals

(* The vesc thread computes speed_kmh. *)
ChangeSpeed ==
  /\ "moving" \in MayChange
  /\ moving' = ~moving
  /\ UNCHANGED <<powerOn, charging, throttleLevel, brakeLevel, minimize,
                 autoRegen, phaseMax, everPressed>>
  /\ UnchangedLocals

(* A transition timer runs out. *)
Elapsed == UNCHANGED <<inputVars, tpc, throttleState, sampleVars, smoothVars,
                       pending, throttle_info>>
ShockOver      == shock /\ shock' = FALSE /\ UNCHANGED <<real, transition>> /\ Elapsed
RealOver       == real /\ real' = FALSE /\ UNCHANGED <<shock, transition>> /\ Elapsed
TransitionOver == transition /\ transition' = FALSE /\ UNCHANGED <<shock, real>> /\ Elapsed

Around == \/ ReadInputs \/ HandleCommand \/ ChangeSpeed
          \/ ShockOver \/ RealOver \/ TransitionOver

-----------------------------------------------------------------------------

ThrottleInit ==
  /\ powerOn \in BOOLEAN /\ charging = FALSE
  /\ throttleLevel \in ThrottleLevels /\ brakeLevel \in BrakeLevels
  /\ everPressed = (throttleLevel > 0)
  /\ moving = FALSE
  /\ \E mode \in SavedModes : minimize = mode[1] /\ autoRegen = mode[2]
  /\ phaseMax \in PhaseLimits
  /\ tpc = "sample" /\ throttleState = "POWER_OFF_OR_CHARGING"
  /\ throttleCurrent = 0 /\ brakeCurrent = 0 /\ throttleClampCurrent = phaseMax
  /\ toApply = 0 /\ movingBecauseThrottle = FALSE
  /\ shock = FALSE /\ real = TRUE /\ transition = FALSE
  /\ pending = Idle
  /\ throttle_info = Idle

ThrottleNext == ThrottleThread \/ Around

ThrottleSpec == ThrottleInit /\ [][ThrottleNext]_throttleVars

ThrottleFairness ==
  /\ WF_throttleVars(ThrottleThread)
  /\ WF_throttleVars(ShockOver)
  /\ WF_throttleVars(RealOver)
  /\ WF_throttleVars(TransitionOver)

ThrottleFairSpec == ThrottleSpec /\ ThrottleFairness

-----------------------------------------------------------------------------
(* Properties *)

Steps == {"sample", "power", "switch", "apply", "recheck"}

(* Every variable has the type of the variable it stands for, and the       *)
(* power switch is looked at again only in the two off states.              *)
ThrottleTypeOK ==
  /\ \A b \in {powerOn, charging, moving, minimize, autoRegen,
               movingBecauseThrottle, shock, real, transition, everPressed} :
       b \in BOOLEAN
  /\ throttleLevel \in ThrottleLevels /\ brakeLevel \in BrakeLevels
  /\ phaseMax \in PhaseLimits
  /\ tpc \in Steps /\ throttleState \in States
  /\ tpc = "recheck" => IsOffState
  /\ throttleCurrent \in Nat /\ brakeCurrent \in Nat /\ toApply \in Nat
  /\ throttleClampCurrent \in Nat
  /\ pending \in ThrottleRequest /\ throttle_info \in ThrottleRequest

(* A bike whose throttle has never left its rest never asks for drive       *)
(* current, through whatever sequence of braking, coasting, charging,       *)
(* switching off and on and changing settings: neither the current that     *)
(* keeps the drivetrain under tension nor a ramp-down may invent one.       *)
NoSpontaneousDrive == Drives(throttle_info) => everPressed

Request0 == throttle_info.requested_current

(* With the power switch off, or the charger connected, from some moment    *)
(* on, the request for drive current ends (main.cpp:437-451, 566-571).      *)
PowerOffEndsDrive ==
  <>[]PoweredOff => <>[](~Drives(throttle_info))

PowerStable == <>[]PoweredOff \/ <>[](~PoweredOff)

(* Whoever holds the brake lever gets braking in the end: the ramp-down of  *)
(* the drive current and the regenerative mode only delay it.               *)
BrakeWins ==
  (<>[](brakeLevel > 0) /\ PowerStable)
     => <>[](~throttle_info.is_accelerating)

(* Power switch and brake lever win over everything else the rider, the     *)
(* machine and the settings do (main.cpp:437-451, 521-535).                 *)
SwitchAndLeverWin == PowerOffEndsDrive /\ BrakeWins

(* Standing still with both levers released, the bike asks for no current   *)
(* at all, whatever state the levers were released in.                      *)
RestMeansZero ==
  <>[](throttleLevel = 0 /\ brakeLevel = 0 /\ ~moving) => <>[](Request0 = 0)

(* Whoever holds the throttle with the brake released gets the current of   *)
(* that throttle position in the end: no state of the machine traps.        *)
FullThrottle ==
  /\ ~PoweredOff
  /\ brakeLevel = 0
  /\ throttleLevel > 0
  /\ clampValue(throttleMap[throttleLevel], phaseMax) >= minCurrent
ThrottleGetsThrough ==
  \A l \in ThrottleLevels, p \in PhaseLimits :
    <>[](FullThrottle /\ throttleLevel = l /\ phaseMax = p)
      => <>[](/\ throttle_info.is_accelerating
              /\ Request0 = clampValue(throttleMap[l], p))

(* So the request follows the throttle, at rest and pressed.                *)
RequestFollowsThrottle == RestMeansZero /\ ThrottleGetsThrough

=============================================================================
