SPECIFICATION Spec
CONSTANTS
  d1 = d1
  d2 = d2
  r1 = r1
  r2 = r2
  w1 = w1
  a = a
  b = b
  s1 = s1
  s2 = s2
  Web = Web
  None = None
  Device = {d1, d2}
  Record = {r1, r2}
  Scout = {a}
  Slot = {s1}
  Maker <- TwoTablets
  Unfit = {}
  Scope <- EveryEvent
  Editable = {}
  PageSize = 2
  MaxPerPush = 2
  MaxLate = 0
  MaxLeads = 0
  ReuseIds = FALSE
INVARIANT OneLivePerScout
SYMMETRY TabletsAlike
