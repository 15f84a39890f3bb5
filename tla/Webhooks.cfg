SPECIFICATION FairSpec
CONSTANTS
  Event = {e1}
  Endpoint <- TwoEndpoints
  RetryId = {r1, r2}
  None = None
INVARIANTS DeliveredWasReceived NeverOvercounts
PROPERTIES DeliveredStays EventReachesAll
CHECK_DEADLOCK FALSE
