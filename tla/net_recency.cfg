CONSTANTS
  p1 = p1
  p2 = p2
  p3 = p3
  b0 = b0
  Peer = {p1, p2, p3}
  Self = Self
  Bucket = {b0}
  BucketOf <- ThreePeers
  K = 2
  App = {}
  Evictor = Evictor
  Receiver = Receiver
  Worker = {}
  None = None
  Retries = 0
  EvictionsCap = 1
  MaxVersion = 4
  Endings = {}
SPECIFICATION RSpec
INVARIANT FrontMostRecentlySeen
