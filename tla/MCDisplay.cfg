SPECIFICATION FairSpec
CONSTANTS
  MaxCommands = 2
  Lanes = {c1, c2}
  NoLane = none
  MaxInFlight = 1
  MaxReplies = 1
  MaxFailures = 1
INVARIANTS TypeOK OrderPerConnection
PROPERTIES ImplementsChannel Converges QuestionsAskedAgain StopEnds
CHECK_DEADLOCK FALSE
