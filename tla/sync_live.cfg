SPECIFICATION FairSpec
CONSTANTS
  d1 = d1
  d2 = d2
  r1 = r1
  r2 = r2
  w1 = w1
  a = a
  b = b
  s1 = s1
  s2 = s2
  Web = Web
  None = None
  Device = {d1}
  Record = {r1, w1}
  Scout = {a}
  Slot = {s1}
  Maker <- FormAndWeb
  Unfit = {}
  Scope <- EveryEvent
  Editable = {s1}
  PageSize = 1
  MaxPerPush = 1
  MaxLate = 0
  MaxLeads = 1
  ReuseIds = FALSE
PROPERTIES EverySyncEnds RecordedFormsLeaveTheQueue RecordedRefusalClears
