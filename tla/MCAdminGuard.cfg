SPECIFICATION FairSpec
CONSTANTS
  u1 = u1
  u2 = u2
  u3 = u3
  t1 = t1
  t2 = t2
  t3 = t3
  t4 = t4
  Users = {u1, u2, u3}
  InitialUsers = {u1, u2}
  Txs = {t1, t2, t3}
  Patches <- Removals
  Nobody = Nobody
INVARIANTS
  AdminRemains
PROPERTIES
  EveryGuardedRequestEnds
