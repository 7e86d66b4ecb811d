CONSTANTS
  p1 = p1
  p2 = p2
  p3 = p3
  q1 = q1
  q2 = q2
  b0 = b0
  b1 = b1
  Peer = {p1, p2, q1, q2}
  Self = Self
  Bucket = {b0, b1}
  BucketOf <- TwoBuckets
  K = 1
  App = {}
  Evictor = Evictor
  Receiver = Receiver
  Worker = {w1}
  None = None
  Retries = 0
  EvictionsCap = 2
  MaxVersion = 2
  Endings = {"close", "fail"}
SPECIFICATION Spec
INVARIANTS ProbeReservation EnqueueNeverBlocks
PROPERTIES QuietAfterClose
