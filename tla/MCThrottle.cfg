SPECIFICATION ThrottleFairSpec
CONSTANTS
  ThrottleLevels = {0, 1}
  BrakeLevels = {0, 1}
  throttleMap <- MCThrottleMap
  brakeMap <- MCBrakeMap
  PhaseLimits = {2}
  minCurrent = 1
  automaticRegenerativeBrakingCurrent = 1
  brakingMaximum = 1
  SavedModes <- MCSavedModes
  MayChange = {"charging", "throttleLevel", "brakeLevel", "moving"}
INVARIANTS ThrottleTypeOK NoSpontaneousDrive
PROPERTIES SwitchAndLeverWin RequestFollowsThrottle
