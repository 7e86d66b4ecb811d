CONSTANTS
  p1 = p1
  p2 = p2
  p3 = p3
  q1 = q1
  q2 = q2
  b0 = b0
  b1 = b1
  Peer = {p1, p2}
  Self = Self
  Bucket = {b0}
  BucketOf <- OneBucket
  K = 1
  App = {a1}
  Evictor = Evictor
  Receiver = Receiver
  Worker = {}
  None = None
  Retries = 0
  EvictionsCap = 1
  MaxVersion = 2
  Endings = {"close", "fail"}
SPECIFICATION FairSpec
PROPERTIES CallsReturn ProbesComplete CloseTerminates
