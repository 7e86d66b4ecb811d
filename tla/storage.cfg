CONSTANTS
  Node <- Nodes
  Publisher = 3
  Accepting <- Willing
  K = 2
  Alpha = 1
  MaxCalls = 1
  MaxHandOffs = 1
  MaxCrashes = 2
SPECIFICATION FairSpec
INVARIANTS TypeOK AcknowledgedStored
PROPERTY Converges
CHECK_DEADLOCK FALSE
