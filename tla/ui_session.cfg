CONSTANTS
  Tabs = {a, b}
  Sessions = {s1, s2}
  Renewable = {s1}
  NeedsClient = TRUE
  MaxRequests = 1
  NoSession = NoSession

SPECIFICATION FairSpec
INVARIANT TypeOK
INVARIANT SignedOutForGood
PROPERTY ExpiredSessionEnds
CHECK_DEADLOCK FALSE
