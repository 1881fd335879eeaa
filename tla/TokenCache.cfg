SPECIFICATION FairSpec
CONSTANTS
  p = p
  q = q
  r = r
  Unheld = Unheld
  Client <- Requests
  Leases <- ShortLeases
  DefaultLease = 4
  Unlimited = 8
  Margin = 2
  Timeout = 2
  MaxTime = 9
INVARIANT TypeOK
PROPERTIES HandsOutLiveTokens Answered
CHECK_DEADLOCK FALSE
