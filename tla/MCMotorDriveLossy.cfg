SPECIFICATION Spec
CONSTANTS
  Currents = {0, 10}
  Limits = {10}
  RampLevels = {0, 10}
  AvgCurrents = {0, 10}
  SecondaryIDs = {1}
  SingleMotorCurrent = 10
  RatioMaximumCurrent = 15
  SettingsFiles <- Settings
  LossyWires <- Settings
INVARIANT MotorsAgree
