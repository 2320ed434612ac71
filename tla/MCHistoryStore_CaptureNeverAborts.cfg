SPECIFICATION Spec
CONSTANTS
  Txs = {t1, t2}
  Values = {v1}
  MaxToggles = 0
  Nobody = Nobody
SYMMETRY Symmetry
INVARIANTS CaptureNeverAborts
