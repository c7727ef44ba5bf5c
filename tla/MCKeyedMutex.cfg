SPECIFICATION FairSpec
CONSTANTS
  u1 = u1
  u2 = u2
  c1 = c1
  c2 = c2
  c3 = c3
  c4 = c4
  NoCall = NoCall
  Call <- MCCall
  Key <- MCKey
  KeyOf <- MCKeyOf
INVARIANTS TypeOK MutualExclusion Fifo NoLeakedTail
PROPERTIES EveryCallServed ImplementsLock
CHECK_DEADLOCK FALSE
