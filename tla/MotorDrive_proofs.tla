-------------------------- MODULE MotorDrive_proofs --------------------------
(***************************************************************************)
(* Proofs about MotorDrive for every set of currents, limits and ids: type *)
(* correctness, commands that follow the request, and, for a bike whose    *)
(* wire loses nothing, that no motor drives while one brakes and that the  *)
(* drive half implements Interlock.                                        *)
(***************************************************************************)
EXTENDS MotorDrive, TLAPS

(* A fraction x/2y of a current c, with x below y, is a current up to c. *)
LEMMA FractionBound ==
  ASSUME NEW c \in Nat, NEW x \in Nat, NEW y \in Nat, x < y
  PROVE  (c * x) \div (2 * y) \in 0..c
<1> DEFINE d == 2 * y
           q == (c * x) \div d
<1>1. d \in Nat /\ d > 0
  OBVIOUS
<1>2. c * x \in Nat /\ c * x <= c * d
  <2>1. x <= d
    OBVIOUS
  <2>2. c * x <= c * d
    BY <2>1, <1>1, SMT
  <2> QED BY <2>2, <1>1
<1> HIDE DEF d
<1>3. q \in Nat /\ q * d <= c * x
  BY <1>1, <1>2
<1>4. q <= c
  <2> SUFFICES ASSUME q > c PROVE FALSE
    BY <1>3
  <2>1. (c + 1) * d <= q * d
    BY <1>1, <1>3
  <2>2. (c + 1) * d = c * d + d
    BY <1>1
  <2> QED BY <2>1, <2>2, <1>1, <1>2, <1>3
<1> QED BY <1>3, <1>4 DEF d

(* The share of the secondary motor never exceeds the request. *)
LEMMA ShareBound ==
  ASSUME NEW c \in Nat PROVE SecondaryShare(c) \in 0..c
<1>1. CASE c <= SingleMotorCurrent
  BY <1>1, RatioAssumption DEF SecondaryShare
<1>2. CASE c > SingleMotorCurrent /\ c >= RatioMaximumCurrent
  BY <1>2, RatioAssumption DEF SecondaryShare
<1>3. CASE c > SingleMotorCurrent /\ c < RatioMaximumCurrent
  <2> DEFINE x == c - SingleMotorCurrent
             y == RatioMaximumCurrent - SingleMotorCurrent
  <2>1. x \in Nat /\ y \in Nat /\ x < y
    BY <1>3, RatioAssumption
  <2>2. (c * x) \div (2 * y) \in 0..c
    BY <2>1, FractionBound
  <2>3. SecondaryShare(c) = (c * x) \div (2 * y)
    BY <1>3, RatioAssumption DEF SecondaryShare
  <2> QED BY <2>2, <2>3
<1> QED BY <1>1, <1>2, <1>3, RatioAssumption

(* The controller at the UART and the one with the configured id are motors. *)
LEMMA IDs == /\ LocalID \in MotorIDs /\ PrimaryID \in MotorIDs
             /\ MotorIDs \subseteq Nat
  BY IDsAssumption DEF LocalID, PrimaryID, MotorIDs

(* First and second motor are the two controllers, in either order. *)
LEMMA Addressed ==
  ASSUME settings \in Settings
  PROVE  /\ Accelerators[1] \in MotorIDs /\ Accelerators[2] \in MotorIDs
         /\ Brakers[1] \in MotorIDs /\ Brakers[2] \in MotorIDs
         /\ {Accelerators[1], Accelerators[2]} = {PrimaryID, settings.secondaryVESCID}
         /\ {Brakers[1], Brakers[2]} = {PrimaryID, settings.secondaryVESCID}
  BY IDs DEF Settings, Accelerators, Brakers, Order, MotorIDs

(* Both commands leave currents in both functions. *)
LEMMA CommandType ==
  ASSUME NEW c \in Nat, NEW m \in MotorIDs,
         drive \in [MotorIDs -> Nat], brake \in [MotorIDs -> Nat],
         setCurrent(c, m) \/ setBrakeCurrent(c, m)
  PROVE  drive' \in [MotorIDs -> Nat] /\ brake' \in [MotorIDs -> Nat]
  BY DEF setCurrent, setBrakeCurrent, Lost, motorVars

(* A clamped current is a current. *)
LEMMA EffectiveType ==
  ASSUME throttle_info \in ThrottleRequest PROVE Effective \in Nat
  BY DEF ThrottleRequest, Effective, Clamped

(* So are both shares of a split. *)
LEMMA SplitType ==
  ASSUME NEW c \in Nat, leftover \in RampLevels,
         primaryCurrent \in Nat, secondaryCurrent \in Nat
  PROVE  Split(c)[1] \in Nat /\ Split(c)[2] \in Nat
<1>1. leftover \in Nat
  BY CurrentsAssumption
<1>2. c \div 2 \in Nat
  OBVIOUS
<1>3. SecondaryShare(c) \in Nat /\ c - SecondaryShare(c) \in Nat
  BY ShareBound
<1>4. SecondaryShare(c) + leftover \in Nat
  BY <1>1, <1>3
<1> HIDE DEF SecondaryShare
<1> QED BY <1>1, <1>2, <1>3, <1>4 DEF Split, Style

(* The vesc thread starts with every variable of its type. *)
LEMMA TypeInit == Init => TypeOK
<1> SUFFICES ASSUME Init PROVE TypeOK
  OBVIOUS
<1>1. throttle_info \in ThrottleRequest
  BY DEF Init, Idle, ThrottleRequest
<1>2. drive \in [MotorIDs -> Nat] /\ brake \in [MotorIDs -> Nat]
  BY DEF Init
<1>3. leftover \in RampLevels /\ primaryCurrent \in Nat /\ secondaryCurrent \in Nat
  BY CurrentsAssumption DEF Init
<1>4. mtx = "vesc" <=> pc \in Holding
  BY DEF Init, Holding, Locations
<1>5. wasBraking \in BOOLEAN /\ wasAccelerating \in BOOLEAN
  BY Zenon DEF Init
<1> QED BY <1>1, <1>2, <1>3, <1>4, <1>5, SettingsAssumption DEF Init, TypeOK, Locations

(* Every step keeps the types, and the mutex is held exactly between the   *)
(* two ends of the drive half.                                             *)
LEMMA TypeStep == TypeOK /\ [Next]_vars => TypeOK'
<1> SUFFICES ASSUME TypeOK, [Next]_vars PROVE TypeOK'
  OBVIOUS
<1> USE DEF TypeOK, requestVars, flagVars, splitVars, motorVars, envVars,
            Goto, Unlock, Locations, Holding
<1>a. throttle_info.requested_current \in Nat /\ Accelerators[1] \in MotorIDs
      /\ Accelerators[2] \in MotorIDs /\ Brakers[1] \in MotorIDs
      /\ Brakers[2] \in MotorIDs /\ LocalID \in MotorIDs
  BY Addressed, IDs DEF ThrottleRequest
<1>1. CASE StartAccelerating
  BY <1>1 DEF StartAccelerating
<1>2. CASE ZeroBrake1
  BY <1>2, <1>a, CommandType DEF ZeroBrake1
<1>3. CASE ZeroBrake2
  BY <1>3, <1>a, CommandType DEF ZeroBrake2
<1>4. CASE ChooseSplit
  <2>1. Split(Effective)[1] \in Nat /\ Split(Effective)[2] \in Nat
    BY EffectiveType, SplitType
  <2>2. throttle_info' \in ThrottleRequest
    BY <1>4, EffectiveType DEF ChooseSplit, ThrottleRequest
  <2> QED BY <1>4, <2>1, <2>2 DEF ChooseSplit
<1>5. CASE Drive1
  BY <1>5, <1>a, CommandType DEF Drive1
<1>6. CASE Drive2
  BY <1>6, <1>a, CommandType DEF Drive2
<1>7. CASE DriveSingle
  BY <1>7, <1>a, CommandType DEF DriveSingle
<1>8. CASE StartBraking
  BY <1>8 DEF StartBraking
<1>9. CASE ZeroDrive1
  BY <1>9, <1>a, CommandType DEF ZeroDrive1
<1>10. CASE ZeroDrive2
  BY <1>10, <1>a, CommandType DEF ZeroDrive2
<1>11. CASE BrakeSingle
  BY <1>11, <1>a, CommandType DEF BrakeSingle
<1>12. CASE Brake1
  <2>1. (throttle_info.requested_current * 9) \div 10 \in Nat
    BY <1>a
  <2> QED BY <1>12, <2>1, <1>a, CommandType DEF Brake1
<1>13. CASE Brake2
  <2>1. throttle_info.requested_current \div 10 \in Nat
    BY <1>a
  <2> QED BY <1>13, <2>1, <1>a, CommandType DEF Brake2
<1>14. CASE TelemetryAnswered
  BY <1>14 DEF TelemetryAnswered, RampOutputs
<1>15. CASE TelemetryFailed
  BY <1>15 DEF TelemetryFailed
<1>16. CASE Apply_Environment
  BY <1>16, CurrentsAssumption DEF Apply_Environment, Apply, ThrottleRequest
<1>17. CASE SetProfile
  BY <1>17 DEF SetProfile
<1>18. CASE \E m \in MotorIDs : CommandTimeout(m)
  BY <1>18 DEF CommandTimeout
<1>19. CASE UNCHANGED vars
  BY <1>19 DEF vars
<1> QED BY <1>1, <1>2, <1>3, <1>4, <1>5, <1>6, <1>7, <1>8, <1>9, <1>10,
           <1>11, <1>12, <1>13, <1>14, <1>15, <1>16, <1>17, <1>18, <1>19
        DEF Next, VescThread

(* The types of MotorDrive hold in every reachable state. *)
THEOREM TypeCorrect == Spec => []TypeOK
  BY TypeInit, TypeStep, PTL DEF Spec

-----------------------------------------------------------------------------
(* What the two flags know about the motors.  Outside the critical section *)
(* exactly one flag is up, and the other kind of current is nowhere.  While *)
(* a flag is down and its zero commands are still to be sent, the motor not *)
(* yet addressed is the only one that may still apply the old current.      *)

NoDrive == \A m \in MotorIDs : drive[m] = 0
NoBrake == \A m \in MotorIDs : brake[m] = 0

AccelPhase == {"split", "drive1", "drive2", "single"}
BrakePhase == {"brake", "brake2"}

OnlyConfigured ==
  \A m \in MotorIDs \ {PrimaryID, settings.secondaryVESCID} :
    drive[m] = 0 /\ brake[m] = 0

FlagsTell ==
  /\ pc \in {"lock", "telemetry"} =>
       \/ wasBraking /\ ~wasAccelerating /\ NoDrive
       \/ ~wasBraking /\ wasAccelerating /\ NoBrake
  /\ pc \in AccelPhase => ~wasBraking /\ NoBrake
  /\ pc \in AccelPhase \ {"split"} => wasAccelerating
  /\ pc \in BrakePhase => ~wasAccelerating /\ NoDrive
  /\ pc = "brake2" => wasBraking
  /\ pc = "zeroBrake1" => ~wasBraking /\ NoDrive
  /\ pc = "zeroBrake2" =>
       /\ ~wasBraking /\ NoDrive
       /\ \A m \in MotorIDs \ {Brakers[2]} : brake[m] = 0
  /\ pc = "zeroDrive1" => ~wasAccelerating /\ NoBrake
  /\ pc = "zeroDrive2" =>
       /\ ~wasAccelerating /\ NoBrake
       /\ \A m \in MotorIDs \ {Accelerators[2]} : drive[m] = 0

InterlockInv == TypeOK /\ OnlyConfigured /\ FlagsTell

(* Nothing that drives before a step leaves something that brakes after it. *)
Coasts == /\ NoDrive \/ NoBrake'
          /\ NoBrake \/ NoDrive'

(* What the flags tell rules out that one motor drives as another brakes. *)
LEMMA InvMeansNoOpposing ==
  InterlockInv => NoDrive \/ NoBrake
  BY DEF InterlockInv, FlagsTell, AccelPhase, BrakePhase, TypeOK, Locations

(* No motor is given a current when the backend starts. *)
LEMMA InterlockInit == Init => InterlockInv
<1> SUFFICES ASSUME Init PROVE InterlockInv
  OBVIOUS
<1>1. TypeOK
  BY TypeInit
<1>2. NoDrive /\ NoBrake
  BY DEF Init, NoDrive, NoBrake
<1>3. FlagsTell
  BY <1>2 DEF Init, FlagsTell, AccelPhase, BrakePhase
<1> QED BY <1>1, <1>2, <1>3 DEF InterlockInv, OnlyConfigured, NoDrive, NoBrake

(* A step on a reliable wire keeps what the flags tell, and lets motors coast
   between driving and braking. *)
LEMMA InterlockStep ==
  ASSUME Reliable, InterlockInv, [Next]_vars
  PROVE  InterlockInv' /\ Coasts
<1>a. /\ Accelerators[1] \in MotorIDs /\ Accelerators[2] \in MotorIDs
      /\ Brakers[1] \in MotorIDs /\ Brakers[2] \in MotorIDs
      /\ {Accelerators[1], Accelerators[2]} = {PrimaryID, settings.secondaryVESCID}
      /\ {Brakers[1], Brakers[2]} = {PrimaryID, settings.secondaryVESCID}
      /\ LocalID = PrimaryID /\ LocalID \in MotorIDs
  BY Addressed, IDs DEF InterlockInv, TypeOK, LocalID, PrimaryID
<1>b. /\ drive \in [MotorIDs -> Nat] /\ brake \in [MotorIDs -> Nat]
      /\ settings' = settings
      /\ Accelerators' = Accelerators /\ Brakers' = Brakers
  <2>1. settings' = settings
    BY DEF Next, vars, VescThread, envVars, StartAccelerating, ZeroBrake1,
           ZeroBrake2, ChooseSplit, Drive1, Drive2, DriveSingle, StartBraking,
           ZeroDrive1, ZeroDrive2, BrakeSingle, Brake1, Brake2,
           TelemetryAnswered, TelemetryFailed, Apply_Environment, SetProfile,
           CommandTimeout
  <2> QED BY <2>1 DEF Accelerators, Brakers, InterlockInv, TypeOK
<1>c. NoDrive \/ NoBrake
  BY InvMeansNoOpposing
<1>t. TypeOK'
  BY TypeStep DEF InterlockInv
<1> SUFFICES OnlyConfigured' /\ FlagsTell' /\ Coasts
  BY <1>t DEF InterlockInv
<1> HIDE DEF Accelerators, Brakers
<1> USE DEF InterlockInv, OnlyConfigured, FlagsTell, Coasts, NoDrive, NoBrake,
            AccelPhase, BrakePhase, Goto, Unlock, setCurrent, setBrakeCurrent,
            Lost, requestVars, flagVars, splitVars, motorVars, envVars
<1>1. CASE StartAccelerating
  BY <1>1, <1>a, <1>b DEF StartAccelerating
<1>2. CASE ZeroBrake1
  BY <1>2, <1>a, <1>b DEF ZeroBrake1
<1>3. CASE ZeroBrake2
  BY <1>3, <1>a, <1>b DEF ZeroBrake2
<1>4. CASE ChooseSplit
  BY <1>4, <1>a, <1>b DEF ChooseSplit
<1>5. CASE Drive1
  BY <1>5, <1>a, <1>b DEF Drive1
<1>6. CASE Drive2
  BY <1>6, <1>a, <1>b DEF Drive2
<1>7. CASE DriveSingle
  BY <1>7, <1>a, <1>b DEF DriveSingle
<1>8. CASE StartBraking
  BY <1>8, <1>a, <1>b DEF StartBraking
<1>9. CASE ZeroDrive1
  BY <1>9, <1>a, <1>b DEF ZeroDrive1
<1>10. CASE ZeroDrive2
  BY <1>10, <1>a, <1>b DEF ZeroDrive2
<1>11. CASE BrakeSingle
  BY <1>11, <1>a, <1>b DEF BrakeSingle
<1>12. CASE Brake1
  BY <1>12, <1>a, <1>b DEF Brake1
<1>13. CASE Brake2
  BY <1>13, <1>a, <1>b DEF Brake2
<1>14. CASE TelemetryAnswered
  BY <1>14, <1>a, <1>b DEF TelemetryAnswered
<1>15. CASE TelemetryFailed
  BY <1>15, <1>a, <1>b DEF TelemetryFailed
<1>16. CASE Apply_Environment
  BY <1>16, <1>b, <1>c DEF Apply_Environment, Apply
<1>17. CASE SetProfile
  BY <1>17, <1>b, <1>c DEF SetProfile
<1>18. CASE \E m \in MotorIDs : CommandTimeout(m)
  BY <1>18, <1>b, <1>c DEF CommandTimeout
<1>19. CASE UNCHANGED vars
  BY <1>19, <1>b, <1>c DEF vars
<1> QED BY <1>1, <1>2, <1>3, <1>4, <1>5, <1>6, <1>7, <1>8, <1>9, <1>10,
           <1>11, <1>12, <1>13, <1>14, <1>15, <1>16, <1>17, <1>18, <1>19
        DEF Next, VescThread

(* The configuration of the motors is read once. *)
LEMMA SettingsStay == [Next]_vars => settings' = settings
  BY DEF Next, vars, VescThread, envVars, StartAccelerating, ZeroBrake1,
         ZeroBrake2, ChooseSplit, Drive1, Drive2, DriveSingle, StartBraking,
         ZeroDrive1, ZeroDrive2, BrakeSingle, Brake1, Brake2,
         TelemetryAnswered, TelemetryFailed, Apply_Environment, SetProfile,
         CommandTimeout

(* The wire of a bike stays what it is, so the invariant of the reliable    *)
(* ones is inductive for all.                                               *)
WireInv == Reliable => InterlockInv

(* Whatever the wire, the invariant of the reliable ones is kept. *)
LEMMA WireStep == WireInv /\ [Next]_vars => WireInv'
  BY InterlockStep, SettingsStay DEF WireInv, Reliable

(* It holds in every behaviour. *)
LEMMA InterlockCorrect == Spec => []WireInv
<1>1. Init => WireInv
  BY InterlockInit DEF WireInv
<1> QED BY <1>1, WireStep, PTL DEF Spec

(* On a wire that loses no command, no motor drives while another brakes,   *)
(* for any currents, ids, drive styles and profile changes.                 *)
THEOREM NoOpposing == Spec => []NoOpposingMotors
<1>1. WireInv => NoOpposingMotors
  BY InvMeansNoOpposing
     DEF WireInv, NoOpposingMotors, MotorsAgree, Driven, Braked, NoDrive, NoBrake
<1> QED BY <1>1, InterlockCorrect, PTL

(* The drive half implements the interlock: every step of a reliable bike   *)
(* engages one kind of current from rest, releases it, or stutters.         *)
THEOREM Refinement == Spec => ImplementsInterlock
<1> DEFINE shown == IF Reliable THEN kindsEngaged ELSE {}
<1>1. Init => Bike!Init
  BY DEF Init, Bike!Init, kindsEngaged, Driven, Braked
<1>2. WireInv /\ [Next]_vars => [Bike!Next]_shown
  <2> SUFFICES ASSUME WireInv, [Next]_vars PROVE [Bike!Next]_shown
    OBVIOUS
  <2>a. Reliable' = Reliable
    BY SettingsStay DEF Reliable
  <2>b. CASE ~Reliable
    BY <2>a, <2>b
  <2>c. CASE Reliable
    <3>1. InterlockInv /\ InterlockInv' /\ Coasts
      BY <2>c, InterlockStep DEF WireInv
    <3>2. NoDrive \/ NoBrake
      BY <3>1, InvMeansNoOpposing
    <3>3. NoDrive' \/ NoBrake'
      BY <3>1, InvMeansNoOpposing, PTL
    <3>4. /\ kindsEngaged \in {{}, {"drive"}, {"brake"}}
          /\ kindsEngaged' \in {{}, {"drive"}, {"brake"}}
      BY <3>2, <3>3 DEF kindsEngaged, Driven, Braked, NoDrive, NoBrake
    <3>5. /\ kindsEngaged = {"drive"} => kindsEngaged' # {"brake"}
          /\ kindsEngaged = {"brake"} => kindsEngaged' # {"drive"}
      BY <3>1 DEF Coasts, kindsEngaged, Driven, Braked, NoDrive, NoBrake
    <3> QED BY <2>a, <2>c, <3>4, <3>5
            DEF Bike!Next, Bike!Engage, Bike!Release, Bike!Kind
  <2> QED BY <2>b, <2>c
<1> QED BY <1>1, <1>2, InterlockCorrect, PTL
        DEF ImplementsInterlock, Bike!Spec, Spec

-----------------------------------------------------------------------------
(* What the mutex keeps true between reading the mode and the last command: *)
(* the request still says what the thread is carrying out.                  *)
RequestHeld ==
  /\ pc \in AccelPhase \cup {"zeroBrake1", "zeroBrake2"}
       => throttle_info.is_accelerating
  /\ pc \in BrakePhase \cup {"zeroDrive1", "zeroDrive2"}
       => ~throttle_info.is_accelerating

(* The throttle thread writes only while the mutex is free, and what the    *)
(* drive half writes back keeps the mode.                                   *)
LEMMA HeldStep == TypeOK /\ RequestHeld /\ [Next]_vars => RequestHeld'
<1> SUFFICES ASSUME TypeOK, RequestHeld, [Next]_vars PROVE RequestHeld'
  OBVIOUS
<1> USE DEF RequestHeld, AccelPhase, BrakePhase, Goto, Unlock, requestVars
<1>1. CASE StartAccelerating \/ StartBraking
  BY <1>1, Zenon DEF StartAccelerating, StartBraking
<1>2. CASE ChooseSplit
  <2>1. throttle_info'.is_accelerating = throttle_info.is_accelerating
    BY <1>2 DEF ChooseSplit, TypeOK, ThrottleRequest
  <2>2. pc = "split" /\ pc' \in {"drive1", "single"}
    BY <1>2 DEF ChooseSplit
  <2> QED BY <2>1, <2>2
<1>3. CASE ZeroBrake1 \/ ZeroBrake2 \/ Drive1 \/ ZeroDrive1 \/ ZeroDrive2 \/ Brake1
  BY <1>3 DEF ZeroBrake1, ZeroBrake2, Drive1, ZeroDrive1, ZeroDrive2, Brake1
<1>4. CASE Drive2 \/ DriveSingle \/ BrakeSingle \/ Brake2 \/ TelemetryAnswered
             \/ TelemetryFailed
  BY <1>4 DEF Drive2, DriveSingle, BrakeSingle, Brake2, TelemetryAnswered,
              TelemetryFailed
<1>5. CASE Apply_Environment
  <2>1. pc \notin Holding /\ pc' = pc
    BY <1>5 DEF Apply_Environment, Apply, TypeOK
  <2> QED BY <2>1 DEF Holding, Locations
<1>6. CASE SetProfile \/ (\E m \in MotorIDs : CommandTimeout(m)) \/ UNCHANGED vars
  BY <1>6 DEF SetProfile, CommandTimeout, vars
<1> QED BY <1>1, <1>2, <1>3, <1>4, <1>5, <1>6 DEF Next, VescThread

(* A motor that is newly driven was told so by one of the drive commands, a *)
(* motor that newly brakes by one of the brake commands.                    *)
LEMMA NewCurrents ==
  ASSUME TypeOK, [Next]_vars, NEW m \in MotorIDs
  PROVE  /\ drive'[m] \notin {0, drive[m]} => pc \in AccelPhase
         /\ brake'[m] \notin {0, brake[m]} => pc \in BrakePhase
<1>a. /\ drive \in [MotorIDs -> Nat] /\ brake \in [MotorIDs -> Nat]
  BY DEF TypeOK
<1> USE DEF AccelPhase, BrakePhase, Goto, Unlock, setCurrent, setBrakeCurrent,
            Lost, motorVars
<1>1. CASE Drive1 \/ Drive2 \/ DriveSingle
  BY <1>1, <1>a DEF Drive1, Drive2, DriveSingle
<1>2. CASE BrakeSingle \/ Brake1 \/ Brake2
  BY <1>2, <1>a DEF BrakeSingle, Brake1, Brake2
<1>3. CASE ZeroBrake1 \/ ZeroBrake2 \/ ZeroDrive1 \/ ZeroDrive2
  BY <1>3, <1>a DEF ZeroBrake1, ZeroBrake2, ZeroDrive1, ZeroDrive2
<1>4. CASE StartAccelerating \/ StartBraking \/ ChooseSplit \/ TelemetryAnswered
             \/ TelemetryFailed \/ Apply_Environment \/ SetProfile \/ UNCHANGED vars
  BY <1>4 DEF StartAccelerating, StartBraking, ChooseSplit, TelemetryAnswered,
              TelemetryFailed, Apply_Environment, SetProfile, vars
<1>5. CASE \E d \in MotorIDs : CommandTimeout(d)
  BY <1>5, <1>a DEF CommandTimeout
<1> QED BY <1>1, <1>2, <1>3, <1>4, <1>5 DEF Next, VescThread

(* Mode and current are one value: however the two threads interleave, and  *)
(* whatever the wire loses, a motor drives or brakes with a new current     *)
(* only while the request says so.                                          *)
THEOREM CommandsKeepMode == Spec => CommandsFollowRequest
<1> DEFINE Follow ==
      \A m \in MotorIDs :
        /\ drive'[m] \notin {0, drive[m]} => throttle_info.is_accelerating
        /\ brake'[m] \notin {0, brake[m]} => ~throttle_info.is_accelerating
<1>1. Init => RequestHeld
  BY DEF Init, RequestHeld, AccelPhase, BrakePhase
<1>2. TypeOK /\ RequestHeld /\ [Next]_vars => [Follow]_vars
  BY NewCurrents DEF RequestHeld
<1> QED BY <1>1, <1>2, TypeInit, TypeStep, HeldStep, PTL
        DEF Spec, CommandsFollowRequest

=============================================================================
