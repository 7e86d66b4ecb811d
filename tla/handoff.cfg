CONSTANTS
  p1 = p1
  p2 = p2
  p3 = p3
  v1 = v1
  v2 = v2
  h1 = h1
  Peer = {p1, p2, p3}
  Self = Self
  Value = {v1, v2}
  HeadKey = {h1}
  Distance <- Distances
  K = 2
  QueueSize = 2
  HistorySize = 2
  None = None
SPECIFICATION FairSpec
INVARIANTS TypeOK QueueExact RememberedIsServed OwedIsOffered
PROPERTIES PendingServed HandoffStops
