SPECIFICATION Spec
CONSTANTS
  ann = ann
  bob = bob
  cid = cid
  d1 = d1
  d2 = d2
  w1 = w1
  w2 = w2
  w3 = w3
  iban = iban
  Nobody = Nobody
  User <- MCUser
  Actor <- MCActor
  Deposit = {d1, d2}
  Withdrawal = {w1, w2, w3}
  Card = {d1, w2}
  OwnerOf <- MCOwnerOf
  Amount <- MCAmount
  DestinationOf <- MCDestinationOf
  Command <- MCCommand
  Opening <- MCOpening
  Floating <- MCFloating
  MarginUnit = 2
  DailyLimit = 3
  DailyCount = 2
  Config <- MCConfig
  Contended <- MCContended
  MaxAborts = 1
INVARIANTS CrmHearsFacts
CHECK_DEADLOCK FALSE
