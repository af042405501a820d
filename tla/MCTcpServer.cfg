SPECIFICATION FairSpec
CONSTANTS
  Connections = {c1, c2}
  NoConnection = none
  MaxFds = 2
  MaxMessages <- OneWriter
INVARIANTS TypeOK DescriptorsOwned RepliesGoToAsker WholeMessages NothingOutlivesServer
PROPERTIES StopEnds EveryDisplayServed
CHECK_DEADLOCK FALSE
