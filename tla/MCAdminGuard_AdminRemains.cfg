SPECIFICATION Spec
CONSTANTS
  u1 = u1
  u2 = u2
  u3 = u3
  t1 = t1
  t2 = t2
  t3 = t3
  t4 = t4
  Users = {u1, u2}
  InitialUsers = {u1}
  Txs = {t1, t2, t3, t4}
  Patches <- PromoteOrDemote
  Nobody = Nobody
SYMMETRY Symmetry
INVARIANT AdminRemains
