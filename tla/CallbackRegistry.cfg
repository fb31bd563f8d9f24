\* Two threads, two keys: reentrant callbacks, liveness and deadlock.
SPECIFICATION FairSpec
CONSTANTS
  t1 = t1  t2 = t2
  k1 = k1  k2 = k2
  v1 = v1
  e1 = e1  e2 = e2  e3 = e3  e4 = e4
  Threads <- TwoThreads
  Keys <- TwoKeys
  Values <- OneValue
  Entries <- FourEntries
  MaxDepth = 2
  CrossKeyCalls = FALSE
  Null = Null
INVARIANTS OwnerPinned AcceptingIffRegistered
PROPERTIES EntersCurrentRegistration DrainReturns
