SPECIFICATION Spec
CONSTANTS
  Fields = {"distance", "rideTime"}
  BigStep = 2
  OdometerSettings = {0}
  MaxRolled = 2
  MaxRounds = 1
  MaxCommands = 1
  MaxStarts = 2
  MaxAstray = 2
  Readings = {0, 3}
INVARIANTS TypeOK DistanceNotInvented CountersInStep
CHECK_DEADLOCK FALSE
