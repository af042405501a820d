SPECIFICATION ControlFairSpec
CONSTANTS
  ThrottleLevels = {0, 1}
  BrakeLevels = {0, 1}
  throttleMap <- MCThrottleMap
  brakeMap <- MCBrakeMap
  PhaseLimits = {2}
  minCurrent = 1
  automaticRegenerativeBrakingCurrent = 2
  brakingMaximum = 2
  SavedModes <- MCDirect
  MayChange = {"powerOn", "brakeLevel", "profile"}
  Currents = {0, 1, 2}
  Limits = {2}
  RampLevels = {0}
  AvgCurrents = {0}
  SecondaryIDs = {1}
  SingleMotorCurrent = 10
  RatioMaximumCurrent = 15
  SettingsFiles <- MCDual
  LossyWires = {}
INVARIANTS NothingDrivesUnpressed
PROPERTIES ImplementsMotorDrive SwitchAndLeverReleaseMotors
