SPECIFICATION DeviceSpec
CONSTANTS
  t1 = t1
  t2 = t2
  p1 = p1
  p2 = p2
  x = x
  y = y
  None = None
  Tablet = {t1, t2}
  Ahead <- FirstAhead
  Path = {p1}
  Body = {x, y}
  Keep = 2
  Jobs = {"tick", "pull"}
  MayOverlap = FALSE
  PiUplink = FALSE
  PageSize = 1
  MaxTime = 3
  MaxMishaps = 1
  MaxLate = 1
  o1 = o1
  teal = teal
  NoteKey = {o1}
  PickKey = {e1}
  Owner <- TealsOwn
  Viewer = {teal, rival}
  Tab = {b1}
  PerPage = 1
  MaxLog = 2
  Device = {d1}
  User = {u1, u2}
  MaxClock = 8
  MaxSignIns = 2
  MaxRestarts = 1
INVARIANTS DeviceTypesOK FetchedIsRead PushedIsRead NewestWins CopyIsTheCut PromisedSyncs SyncsAsThePage
SYMMETRY Swapped
