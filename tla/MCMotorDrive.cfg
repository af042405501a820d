SPECIFICATION FairSpec
CONSTANTS
  Currents = {0, 20}
  Limits = {10, 20}
  RampLevels = {0, 10}
  AvgCurrents <- MCAvgCurrents
  SecondaryIDs <- MCSecondaryIDs
  SingleMotorCurrent = 10
  RatioMaximumCurrent = 15
  SettingsFiles <- Settings
  LossyWires <- MCLossyWires
INVARIANTS TypeOK NoOpposingMotors
PROPERTIES ImplementsInterlock CommandsFollowRequest
           ZeroRequestReleasesMotors OppositionEnds
