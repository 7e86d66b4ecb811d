CONSTANTS
  IDLength = 1
  ByteBits = 2
  Self <- Here
  Peer <- TwoPeers
  App = {a1}
  Refresher = Refresher
  Replicator = Replicator
  Closer = {c1, c2}
  ValueKey <- Values
  HeadKey <- Heads
SPECIFICATION FairSpec
INVARIANTS TypeOK GateExclusive ClosedIsQuiet
PROPERTIES PassCovers CallsReturn StaleSearched
