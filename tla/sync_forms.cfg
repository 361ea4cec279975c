SPECIFICATION Spec
CONSTANTS
  d1 = d1
  d2 = d2
  r1 = r1
  r2 = r2
  w1 = w1
  a = a
  b = b
  s1 = s1
  s2 = s2
  Web = Web
  None = None
  Device = {d1}
  Record = {r1, r2}
  Scout = {a}
  Slot = {s1}
  Maker <- TwoForms
  Unfit = {}
  Scope <- EveryEvent
  Editable = {s1}
  PageSize = 2
  MaxPerPush = 1
  MaxLate = 1
  MaxLeads = 0
  ReuseIds = FALSE
INVARIANTS TypeOK DevicesMirrorPi
PROPERTY NothingLost
