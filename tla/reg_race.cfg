CONSTANTS
  n1 = n1
  n2 = n2
  c1 = c1
  c2 = c2
  w1 = w1
  w2 = w2
  Node = {n1, n2}
  Client = {c1, c2}
  Worker = {w2}
  Home <- ReaderAndWorker
  Rank <- Ranks
  K = 2
  None = None
  Version = {1, 2}
  Content = {x}
  MaxLength = 2
  MaxRecords = 3
  Operations <- PublishAndRead
  Copied = {}
  Forces = FALSE
  Cancels = TRUE
SPECIFICATION Spec
INVARIANT AcknowledgedHold
PROPERTY ImplementsHistories
