SPECIFICATION GwFairSpec
CONSTANTS
  Callers = {c1, c2}
  Tokens = {t1, t2}
  Scoped = {t1}
  MaxEntries = 1
  PositiveTTL = 1
  NegativeTTL = 1
  LoadTimeout = 1
  LoadResults <- VerifyResults
  MaxTime = 3
INVARIANTS
  LruMatchesEntries CacheBounded SlotHeldByLoader NoLostWakeup
  ForwardedWasConfirmed RevocationEffective
PROPERTIES EveryRequestAnswered
