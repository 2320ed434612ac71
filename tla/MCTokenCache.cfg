SPECIFICATION FairSpec
CONSTANTS
  Callers = {c1, c2, c3}
  Tokens = {t1, t2}
  MaxEntries = 1
  PositiveTTL = 1
  NegativeTTL = 1
  LoadTimeout = 1
  LoadResults <- MCLoadResults
  MaxTime = 2
INVARIANTS LruMatchesEntries CacheBounded SlotHeldByLoader NoLostWakeup
PROPERTIES EveryCallReturns
