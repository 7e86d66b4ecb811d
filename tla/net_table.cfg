CONSTANTS
  p1 = p1
  p2 = p2
  p3 = p3
  q1 = q1
  q2 = q2
  b0 = b0
  b1 = b1
  Peer = {p1, p2, p3}
  Self = Self
  Bucket = {b0}
  BucketOf <- ThreePeers
  K = 2
  App = {a1}
  Evictor = Evictor
  Receiver = Receiver
  Worker = {w1}
  None = None
  Retries = 1
  EvictionsCap = 1
  MaxVersion = 3
  Endings = {}
SPECIFICATION Spec
SYMMETRY Symmetry
INVARIANTS TypeOK BucketInv TimedOutProbeIsStale
PROPERTIES ImplementsPeerSet OnlySilentPeersDropped
