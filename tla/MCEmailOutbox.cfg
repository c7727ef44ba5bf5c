SPECIFICATION FairSpec
CONSTANTS
  Mails = 2
  Dispatcher = {web, trade}
  MaxAttempts = 2
  Batch = 2
  MaxFaults = 1
  MaxRequeues = 1
INVARIANTS TypeOK OneDeliverer AttemptsBounded
PROPERTIES ImplementsDelivery EveryMailSettles
