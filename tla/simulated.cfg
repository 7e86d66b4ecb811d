CONSTANTS
  Endpoint = {e1, e2}
  Address = {a1, a2}
  InboxSize = 2
  MaxSent = 4
  None = None
SPECIFICATION Spec
INVARIANTS DeliverNeverBlocks PacketsConserved InboxDiesWithEndpoint
CHECK_DEADLOCK FALSE
