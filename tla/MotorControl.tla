---------------------------- MODULE MotorControl ----------------------------
(***************************************************************************)
(* The throttle thread and the vesc thread together (backend/main.cpp),    *)
(* coupled by throttle_info and throttle_info_mtx: Throttle hands requests *)
(* over, MotorDrive turns them into motor commands, and while MotorDrive   *)
(* holds the mutex over a series of UART writes, Throttle waits.  Of the   *)
(* environment that MotorDrive has on its own, Apply_Environment is gone:  *)
(* HandOver takes its place.                                               *)
(***************************************************************************)
EXTENDS Throttle, MotorDrive

(* MotorDrive is told every current up to the largest one that a lever or   *)
(* one of the fixed currents stands for, and every limit a request carries. *)
Requestable(c) == 0..c \subseteq Currents

ASSUME RequestsAssumption ==
  /\ \A l \in ThrottleLevels : Requestable(throttleMap[l])
  /\ \A l \in BrakeLevels : Requestable(brakeMap[l])
  /\ Requestable(minCurrent)
  /\ Requestable(automaticRegenerativeBrakingCurrent)
  /\ PhaseLimits \cup {brakingMaximum} \subseteq Limits

driveOnlyVars == <<mtx, settings, forceSingle, pc, wasBraking, wasAccelerating,
                   primaryCurrent, secondaryCurrent, leftover, drive, brake>>
throttleOnlyVars ==
  <<powerOn, charging, throttleLevel, brakeLevel, moving, minimize, autoRegen,
    phaseMax, everPressed, tpc, throttleState, throttleCurrent, brakeCurrent,
    throttleClampCurrent, toApply, movingBecauseThrottle, shock, real,
    transition, pending>>
controlVars == <<throttleOnlyVars, throttle_info, driveOnlyVars>>

ControlInit == ThrottleInit /\ Init

(* Mutant: the request is written without taking the mutex. *)
HandOver_Unlocked ==
  /\ ApplyRequest
  /\ UNCHANGED driveOnlyVars

(* The throttle thread hands its request over under the mutex. *)
HandOver ==
  /\ mtx = "free"
  /\ ApplyRequest
  /\ UNCHANGED driveOnlyVars

Compute == ThrottleCompute /\ UNCHANGED driveOnlyVars

Command == VescThread /\ UNCHANGED throttleOnlyVars

Surroundings ==
  \/ Around /\ UNCHANGED driveOnlyVars
  \/ /\ \/ "profile" \in MayChange /\ SetProfile
        \/ \E m \in MotorIDs : CommandTimeout(m)
     /\ UNCHANGED throttleOnlyVars

ControlNext == HandOver \/ Compute \/ Command \/ Surroundings

(* Both threads are scheduled, transitions and command timeouts run out,    *)
(* and the vesc thread, which blocks on the UART between two critical       *)
(* sections, leaves the mutex to a waiting throttle thread now and then.    *)
ControlFairness ==
  /\ WF_controlVars(Compute) /\ SF_controlVars(HandOver)
  /\ WF_controlVars(Command)
  /\ WF_controlVars(ShockOver /\ UNCHANGED driveOnlyVars)
  /\ WF_controlVars(RealOver /\ UNCHANGED driveOnlyVars)
  /\ WF_controlVars(TransitionOver /\ UNCHANGED driveOnlyVars)
  /\ \A m \in MotorIDs :
       WF_controlVars(CommandTimeout(m) /\ UNCHANGED throttleOnlyVars)

ControlSpec == ControlInit /\ [][ControlNext]_controlVars
ControlFairSpec == ControlSpec /\ ControlFairness

-----------------------------------------------------------------------------
(* Properties *)

(* The throttle thread is an environment MotorDrive was written for: it     *)
(* requests only currents MotorDrive expects, and only while the mutex is   *)
(* free.  Whatever is proved of MotorDrive holds of the two threads.        *)
ImplementsMotorDrive == Spec

Advanced == settings.dualMotorDriveStyle \in {Style.advanced1, Style.advanced2}

(* Before the throttle has left its rest, no motor drives: what the brakes  *)
(* or the drivetrain are given never comes out as a drive current, although *)
(* the vesc thread looks at the request several times between two changes   *)
(* of it (main.cpp:361-375, 395-576, 595-691).  The one exception is the    *)
(* second motor of the ADVANCED styles, which is given a leftover current   *)
(* that the telemetry decides about (main.cpp:626, 643).                    *)
NothingDrivesUnpressed ==
  ~everPressed => \A m \in Driven : Advanced /\ m = Accelerators[2]

(* With the power switched off for good, no motor is driven from some       *)
(* moment on (main.cpp:437-451, 606-663).  Drive style SIMPLE only: the     *)
(* others go on driving with the leftover current.                          *)
PowerOffReleasesMotors ==
  (<>[]PoweredOff /\ [](settings.dualMotorDriveStyle = Style.simple))
    => <>[](Driven = {})

(* Whoever holds the brake lever stops every motor from driving, although   *)
(* the throttle stays pressed and single-motor profiles come and go.        *)
BrakeReleasesMotors ==
  (<>[](brakeLevel > 0) /\ PowerStable) => <>[](Driven = {})

(* Switch and lever reach the motors, each through both threads.            *)
SwitchAndLeverReleaseMotors == PowerOffReleasesMotors /\ BrakeReleasesMotors

=============================================================================
