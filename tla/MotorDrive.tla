----------------------------- MODULE MotorDrive -----------------------------
(***************************************************************************)
(* The drive half of vescProcessingFunction (backend/main.cpp): under      *)
(* throttle_info_mtx the thread reads the request of the throttle thread   *)
(* and turns it into one UART command after the other for one or two VESC  *)
(* motor controllers.  A controller obeys the last command it received     *)
(* until the next one, or until its own command timeout makes it coast.    *)
(*                                                                         *)
(* Currents are integers in the unit of the wire format (COMM_SET_CURRENT  *)
(* carries milliamperes), so a division truncates like the conversion does.*)
(* The throttle thread and the IPC thread appear here as environment       *)
(* actions; module MotorControl replaces the first by the real one.        *)
(***************************************************************************)
EXTENDS ThrottleInfo

CONSTANTS
  Currents,            \* the currents the throttle thread may request
  Limits,              \* the values throttle_info.maximum_current may take
  RampLevels,          \* the outputs of the leftover ramp that are told apart
  AvgCurrents,         \* the motor currents telemetry may report
  SecondaryIDs,        \* the values settings.secondaryVESCID may be loaded with
  SingleMotorCurrent,  \* singleMotorCurrent and ratioMaximumCurrent of the
  RatioMaximumCurrent, \*   ADVANCED_2 drive style
  SettingsFiles,       \* the settings the file may hold, see Settings
  LossyWires           \* the settings of bikes whose wire may lose a command

ASSUME CurrentsAssumption ==
  /\ Currents \subseteq Nat /\ 0 \in Currents
  /\ Limits \subseteq Nat
  /\ RampLevels \subseteq Nat /\ 0 \in RampLevels
  /\ AvgCurrents \subseteq Int
ASSUME RatioAssumption ==
  /\ SingleMotorCurrent \in Nat
  /\ RatioMaximumCurrent \in Nat
  /\ SingleMotorCurrent < RatioMaximumCurrent
ASSUME IDsAssumption == SecondaryIDs \subseteq Nat

(* The part of the settings that is read here.  A drive style other than   *)
(* the three named ones divides nothing: 3 stands for all of those.        *)
Settings == [enableDualVESC    : BOOLEAN,
             dualMotorDriveStyle : 0..3,
             secondaryVESCID   : SecondaryIDs,
             setSecondaryVescAsFirstAccelerationMotor : BOOLEAN,
             setSecondaryVescAsFirstBrakingMotor      : BOOLEAN]

ASSUME SettingsAssumption == SettingsFiles \subseteq Settings
ASSUME UartAssumption == LossyWires \subseteq Settings

Style == [simple |-> 0, advanced1 |-> 1, advanced2 |-> 2]

LocalID   == 0     \* a command without an id goes to the VESC on the UART
PrimaryID == 0     \* settings.primaryVESCID is never loaded: it stays 0

MotorIDs == {PrimaryID} \cup SecondaryIDs

VARIABLES
  settings,         \* loaded from the settings file before the threads start
  mtx,              \* who holds throttle_info_mtx: "free" or "vesc"
  forceSingle,      \* data_mcconf.c_force_single_motor_acceleration
  pc,               \* the next step of vescProcessingFunction
  wasBraking,       \* its static _wasBraking
  wasAccelerating,  \* its static _wasAccelerating
  primaryCurrent,
  secondaryCurrent,
  leftover,         \* primaryVESCSaturatedLeftoverCurrent
  drive,            \* the motor current each controller is applying
  brake             \* the brake current each controller is applying

requestVars == <<throttle_info, mtx>>
flagVars    == <<wasBraking, wasAccelerating>>
splitVars   == <<primaryCurrent, secondaryCurrent>>
motorVars   == <<drive, brake>>
envVars     == <<settings, forceSingle>>
vars == <<requestVars, flagVars, splitVars, motorVars, envVars, pc, leftover>>

-----------------------------------------------------------------------------
(* Which controller is addressed *)

Order(second, id, first) == IF second THEN <<id, first>> ELSE <<first, id>>

Accelerators == Order(settings.setSecondaryVescAsFirstAccelerationMotor,
                      settings.secondaryVESCID, PrimaryID)
Brakers == Order(settings.setSecondaryVescAsFirstBrakingMotor,
                 settings.secondaryVESCID, PrimaryID)

(* VESC.setCurrent and VESC.setBrakeCurrent: the controller replaces what   *)
(* it was doing, unless the packet is lost; nothing tells the sender.       *)
Reliable == settings \notin LossyWires
Lost == ~Reliable /\ UNCHANGED motorVars

setCurrent(c, m) ==
  \/ /\ drive' = [drive EXCEPT ![m] = c]
     /\ brake' = [brake EXCEPT ![m] = 0]
  \/ Lost

setBrakeCurrent(c, m) ==
  \/ /\ brake' = [brake EXCEPT ![m] = c]
     /\ drive' = [drive EXCEPT ![m] = 0]
  \/ Lost

Goto(from, to) == pc = from /\ pc' = to

-----------------------------------------------------------------------------
(* How a requested current is divided *)

(* ADVANCED_2: what the ratio leaves to the secondary motor, nothing up to *)
(* singleMotorCurrent and half from ratioMaximumCurrent on.                *)
SecondaryShare(c) ==
  IF c <= SingleMotorCurrent THEN 0
  ELSE IF c >= RatioMaximumCurrent THEN c \div 2
  ELSE (c * (c - SingleMotorCurrent))
         \div (2 * (RatioMaximumCurrent - SingleMotorCurrent))

Clamped(c, max) == IF c > max THEN max ELSE c

(* The request itself is clamped by ADVANCED_2, and by no other style. *)
Effective ==
  IF settings.dualMotorDriveStyle = Style.advanced2
  THEN Clamped(throttle_info.requested_current, throttle_info.maximum_current)
  ELSE throttle_info.requested_current

(* Mutant: the leftover is added in every style. *)
Split_LeftoverEverywhere(c) ==
  IF settings.dualMotorDriveStyle = Style.simple
  THEN <<c \div 2, (c \div 2) + leftover>>
  ELSE <<c, leftover>>

Split(c) ==
  CASE settings.dualMotorDriveStyle = Style.simple ->
         <<c \div 2, c \div 2>>
    [] settings.dualMotorDriveStyle = Style.advanced1 ->
         <<c, leftover>>
    [] settings.dualMotorDriveStyle = Style.advanced2 ->
         <<c - SecondaryShare(c), SecondaryShare(c) + leftover>>
    [] OTHER -> <<primaryCurrent, secondaryCurrent>>

-----------------------------------------------------------------------------
(* is_accelerating: no motor may still brake, then the drive commands *)

StartAccelerating ==
  /\ pc = "lock" /\ mtx = "free"
  /\ throttle_info.is_accelerating
  /\ mtx' = "vesc"
  /\ IF wasBraking
     THEN /\ wasBraking' = FALSE
          /\ pc' = "zeroBrake1"
     ELSE /\ wasBraking' = wasBraking
          /\ pc' = "split"
  /\ UNCHANGED <<throttle_info, wasAccelerating, splitVars, motorVars,
                 envVars, leftover>>

ZeroBrake1 ==
  /\ Goto("zeroBrake1", "zeroBrake2")
  /\ setBrakeCurrent(0, Brakers[1])
  /\ UNCHANGED <<requestVars, flagVars, splitVars, envVars, leftover>>

ZeroBrake2 ==
  /\ Goto("zeroBrake2", "split")
  /\ setBrakeCurrent(0, Brakers[2])
  /\ UNCHANGED <<requestVars, flagVars, splitVars, envVars, leftover>>

(* The first of two reads of c_force_single_motor_acceleration. *)
ChooseSplit ==
  /\ pc = "split"
  /\ wasAccelerating' = TRUE
  /\ IF settings.enableDualVESC /\ ~forceSingle
     THEN /\ throttle_info' = [throttle_info EXCEPT !.requested_current = Effective]
          /\ primaryCurrent' = Split(Effective)[1]
          /\ secondaryCurrent' = Split(Effective)[2]
          /\ pc' = "drive1"
     ELSE /\ UNCHANGED <<throttle_info, splitVars>>
          /\ pc' = "single"
  /\ UNCHANGED <<mtx, wasBraking, motorVars, envVars, leftover>>

Drive1 ==
  /\ Goto("drive1", "drive2")
  /\ setCurrent(primaryCurrent, Accelerators[1])
  /\ UNCHANGED <<requestVars, flagVars, splitVars, envVars, leftover>>

(* Mutant: the last command returns without unlocking. *)
Unlock_Forgotten(from) ==
  /\ Goto(from, "telemetry")
  /\ UNCHANGED requestVars

Unlock(from) ==
  /\ Goto(from, "telemetry")
  /\ mtx' = "free"
  /\ UNCHANGED throttle_info

Drive2 ==
  /\ Unlock("drive2")
  /\ setCurrent(secondaryCurrent, Accelerators[2])
  /\ UNCHANGED <<flagVars, splitVars, envVars, leftover>>

(* The second read of the flag: the IPC thread may have changed it. *)
DriveSingle ==
  /\ Unlock("single")
  /\ setCurrent(throttle_info.requested_current,
                IF forceSingle THEN Accelerators[1] ELSE LocalID)
  /\ UNCHANGED <<flagVars, splitVars, envVars, leftover>>

-----------------------------------------------------------------------------
(* ~is_accelerating: no motor may still drive, then the brake commands *)

(* Mutant: no zero command before the first brake command. *)
StartBraking_WithoutZero ==
  /\ pc = "lock" /\ mtx = "free"
  /\ ~throttle_info.is_accelerating
  /\ mtx' = "vesc"
  /\ wasAccelerating' = FALSE
  /\ pc' = "brake"
  /\ UNCHANGED <<throttle_info, wasBraking, splitVars, motorVars,
                 envVars, leftover>>

StartBraking ==
  /\ pc = "lock" /\ mtx = "free"
  /\ ~throttle_info.is_accelerating
  /\ mtx' = "vesc"
  /\ IF wasAccelerating
     THEN /\ wasAccelerating' = FALSE
          /\ pc' = "zeroDrive1"
     ELSE /\ wasAccelerating' = wasAccelerating
          /\ pc' = "brake"
  /\ UNCHANGED <<throttle_info, wasBraking, splitVars, motorVars,
                 envVars, leftover>>

ZeroDrive1 ==
  /\ Goto("zeroDrive1", "zeroDrive2")
  /\ setCurrent(0, Accelerators[1])
  /\ UNCHANGED <<requestVars, flagVars, splitVars, envVars, leftover>>

(* Mutant: the same motor is zeroed twice. *)
ZeroDrive2_FirstAgain ==
  /\ Goto("zeroDrive2", "brake")
  /\ setCurrent(0, Accelerators[1])
  /\ UNCHANGED <<requestVars, flagVars, splitVars, envVars, leftover>>

ZeroDrive2 ==
  /\ Goto("zeroDrive2", "brake")
  /\ setCurrent(0, Accelerators[2])
  /\ UNCHANGED <<requestVars, flagVars, splitVars, envVars, leftover>>

(* One controller brakes: no dual drive, or a profile for a single motor. *)
BrakeSingle ==
  /\ Unlock("brake")
  /\ ~settings.enableDualVESC \/ forceSingle
  /\ wasBraking' = TRUE
  /\ setBrakeCurrent(throttle_info.requested_current,
                     IF settings.enableDualVESC THEN Brakers[1] ELSE LocalID)
  /\ UNCHANGED <<wasAccelerating, splitVars, envVars, leftover>>

Brake1 ==
  /\ Goto("brake", "brake2")
  /\ settings.enableDualVESC /\ ~forceSingle
  /\ wasBraking' = TRUE
  /\ setBrakeCurrent((throttle_info.requested_current * 9) \div 10, Brakers[1])
  /\ UNCHANGED <<requestVars, wasAccelerating, splitVars, envVars, leftover>>

(* Mutant: the second braking command is a drive command. *)
Brake2_Drives ==
  /\ Unlock("brake2")
  /\ setCurrent(throttle_info.requested_current \div 10, Brakers[2])
  /\ UNCHANGED <<flagVars, splitVars, envVars, leftover>>

Brake2 ==
  /\ Unlock("brake2")
  /\ setBrakeCurrent(throttle_info.requested_current \div 10, Brakers[2])
  /\ UNCHANGED <<flagVars, splitVars, envVars, leftover>>

-----------------------------------------------------------------------------
(* The telemetry half, as far as it feeds back into the drive half *)

(* A ramp that starts at from never leaves the interval to its target. *)
RampOutputs(from, target) ==
  {c \in RampLevels : \/ (from <= c /\ c <= target)
                      \/ (target <= c /\ c <= from)}

Saturation(avg) == IF avg < primaryCurrent THEN primaryCurrent - avg ELSE 0

TelemetryAnswered ==
  /\ Goto("telemetry", "lock")
  /\ \E avg \in AvgCurrents : leftover' \in RampOutputs(leftover, Saturation(avg))
  /\ UNCHANGED <<requestVars, flagVars, splitVars, motorVars, envVars>>

TelemetryFailed ==
  /\ Goto("telemetry", "lock")
  /\ UNCHANGED <<requestVars, flagVars, splitVars, motorVars, envVars, leftover>>

-----------------------------------------------------------------------------
(* The environment *)

(* Mutant: the request is written without taking the mutex. *)
Apply_Unlocked(request) ==
  /\ throttle_info' = request
  /\ UNCHANGED mtx

(* ThrottleApplyThrottle and ThrottleApplyBraking take the same mutex. *)
Apply(request) ==
  /\ mtx = "free"
  /\ throttle_info' = request
  /\ UNCHANGED mtx

Apply_Environment ==
  /\ \E acc \in BOOLEAN, c \in Currents, max \in Limits :
       Apply([is_accelerating |-> acc, requested_current |-> c,
              maximum_current |-> max])
  /\ UNCHANGED <<flagVars, splitVars, motorVars, envVars, pc, leftover>>

(* A power profile chosen over IPC, without any lock. *)
SetProfile ==
  /\ forceSingle' = ~forceSingle
  /\ UNCHANGED <<requestVars, flagVars, splitVars, motorVars, settings, pc,
                 leftover>>

(* A controller that has not been addressed for a while lets go. *)
CommandTimeout(m) ==
  /\ drive[m] > 0 \/ brake[m] > 0
  /\ drive' = [drive EXCEPT ![m] = 0]
  /\ brake' = [brake EXCEPT ![m] = 0]
  /\ UNCHANGED <<requestVars, flagVars, splitVars, envVars, pc, leftover>>

-----------------------------------------------------------------------------

Init ==
  /\ settings \in SettingsFiles
  /\ throttle_info = Idle
  /\ mtx = "free"
  /\ forceSingle \in BOOLEAN
  /\ pc = "lock"
  /\ wasBraking = FALSE /\ wasAccelerating = TRUE
  /\ primaryCurrent = 0 /\ secondaryCurrent = 0 /\ leftover = 0
  /\ drive = [m \in MotorIDs |-> 0]
  /\ brake = [m \in MotorIDs |-> 0]

(* One iteration of vescProcessingFunction's loop, step by step. *)
VescThread ==
  \/ StartAccelerating \/ ZeroBrake1 \/ ZeroBrake2 \/ ChooseSplit
  \/ Drive1 \/ Drive2 \/ DriveSingle
  \/ StartBraking \/ ZeroDrive1 \/ ZeroDrive2
  \/ BrakeSingle \/ Brake1 \/ Brake2
  \/ TelemetryAnswered \/ TelemetryFailed

Next ==
  \/ VescThread
  \/ Apply_Environment
  \/ SetProfile
  \/ \E m \in MotorIDs : CommandTimeout(m)

Spec == Init /\ [][Next]_vars

FairSpec ==
  /\ Spec
  /\ WF_vars(VescThread)
  /\ \A m \in MotorIDs : WF_vars(CommandTimeout(m))

-----------------------------------------------------------------------------
(* Properties *)

Driven == {m \in MotorIDs : drive[m] > 0}
Braked == {m \in MotorIDs : brake[m] > 0}

Locations == {"lock", "zeroBrake1", "zeroBrake2", "split", "drive1", "drive2",
              "single", "zeroDrive1", "zeroDrive2", "brake", "brake2",
              "telemetry"}
Holding == Locations \ {"lock", "telemetry"}

(* Every variable has the type of the variable it stands for, and the mutex *)
(* is held exactly while the request is being carried out.                  *)
TypeOK ==
  /\ settings \in Settings
  /\ throttle_info \in ThrottleRequest
  /\ mtx \in {"free", "vesc"}
  /\ forceSingle \in BOOLEAN
  /\ pc \in Locations
  /\ mtx = "vesc" <=> pc \in Holding
  /\ wasBraking \in BOOLEAN /\ wasAccelerating \in BOOLEAN
  /\ primaryCurrent \in Nat /\ secondaryCurrent \in Nat
  /\ leftover \in RampLevels
  /\ drive \in [MotorIDs -> Nat]
  /\ brake \in [MotorIDs -> Nat]

(* "make sure the motors are not braking" (main.cpp:607) and "make sure the *)
(* motors are not accelerating" (main.cpp:666), taken at their word: no     *)
(* motor drives while one brakes, on any bike.                              *)
MotorsAgree == Driven = {} \/ Braked = {}

(* Whatever the profile and whenever it changes, a bike whose wire loses no *)
(* command never drives with one motor while it brakes with another.        *)
NoOpposingMotors == Reliable => MotorsAgree

(* The bike as a whole: driven, braked or coasting.  *)
kindsEngaged == (IF Driven # {} THEN {"drive"} ELSE {})
                  \cup (IF Braked # {} THEN {"brake"} ELSE {})

(* What a reliable wire promises; a lossy one is promised nothing. *)
Bike == INSTANCE Interlock WITH engaged <- IF Reliable THEN kindsEngaged ELSE {}

(* The drive half implements the interlock: no step goes from driving to    *)
(* braking or back without a moment in which every motor coasts.            *)
ImplementsInterlock == Bike!Spec

(* The mutex makes mode and current one value: a motor is given a current   *)
(* to drive with only while the request says "accelerate", a current to     *)
(* brake with only while it says "brake" (main.cpp:361-375, 595-691).       *)
CommandsFollowRequest ==
  [][\A m \in MotorIDs :
       /\ drive'[m] \notin {0, drive[m]} => throttle_info.is_accelerating
       /\ brake'[m] \notin {0, brake[m]} => ~throttle_info.is_accelerating]_vars

ZeroRequest == throttle_info.requested_current = 0

(* Once the throttle thread asks for nothing and goes on asking for         *)
(* nothing, every motor ends up coasting, also the one that a change to a   *)
(* single-motor profile left with its last command.  The ADVANCED styles    *)
(* are outside: they add the leftover current to a request of zero.         *)
ZeroRequestReleasesMotors ==
  (<>[](ZeroRequest /\ settings.dualMotorDriveStyle = Style.simple))
     => <>[](kindsEngaged = {})

(* On a wire that loses commands motors may oppose each other, since the    *)
(* zero command is sent once; they do not stay opposed for as long as the   *)
(* request does not change its direction.                                   *)
OppositionEnds ==
  (\/ <>[](throttle_info.is_accelerating)
   \/ <>[](~throttle_info.is_accelerating)) => <>[]MotorsAgree

=============================================================================
