SPECIFICATION Spec
CONSTANTS
  Txs = {t1, t2, t3}
  Values = {v1, v2}
  MaxToggles = 1
  Nobody = Nobody
SYMMETRY Symmetry
INVARIANTS CapturedTimeline
