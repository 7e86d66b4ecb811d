CONSTANTS
  Peer = {1, 2, 3, 4}
  Rank <- ByNumber
  K = 2
  Alpha = 2
  Self = Self
  None = None
SPECIFICATION FairSpec
INVARIANTS TypeOK ResultIsClosest VerdictsAreHonest ValueNotLost ProbesBounded
PROPERTY LookupReturns
