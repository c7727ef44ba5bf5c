SPECIFICATION FairSpec
CONSTANTS
  k1 = k1
  k2 = k2
  Order = {k1, k2}
  Direction <- MCDirection
  Rate <- MCRate
  Markup = 1
  Stop <- MCStop
  NoStop = NoStop
  Margin = 4
  Commission = 1
  Sent <- MCSent
  Funding = {8, 10}
  MaxFailures = 1
PROPERTY OpenRowsGetMirrored
CHECK_DEADLOCK FALSE
