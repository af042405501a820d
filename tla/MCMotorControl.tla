--------------------------- MODULE MCMotorControl ---------------------------
(* Values for checking MotorControl: one pressed position of each lever,    *)
(* currents that halve, and two controllers driven in style SIMPLE.         *)
EXTENDS MotorControl

MCThrottleMap == [l \in {0, 1} |-> IF l = 0 THEN 0 ELSE 2]
MCBrakeMap == [l \in {0, 1} |-> IF l = 0 THEN 0 ELSE 2]

MCDirect == {<<FALSE, FALSE>>}   \* minimizeDrivetrainBacklash off

MCDual ==
  {[enableDualVESC |-> TRUE, dualMotorDriveStyle |-> 0, secondaryVESCID |-> 1,
    setSecondaryVescAsFirstAccelerationMotor |-> FALSE,
    setSecondaryVescAsFirstBrakingMotor |-> TRUE]}

=============================================================================
