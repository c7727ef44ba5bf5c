SPECIFICATION FairSpec
CONSTANTS
  tab = tab
  user = user
  Tab = {tab}
  User = {user}
  UserOf <- MCUserOf
  Symbol = {eurusd, gold}
  Conns = 2
  EarlyFrames = 2
  MaxSubs = 1
  MaxBreaks = 1
  MaxToggles = 2
  MaxTrades = 1
INVARIANTS TypeOK PresenceExact QuietMeansAgreed
PROPERTIES TabsRecover
CHECK_DEADLOCK FALSE
