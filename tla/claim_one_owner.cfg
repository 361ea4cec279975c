SPECIFICATION Spec
CONSTANTS
  t1 = t1
  t2 = t2
  p1 = p1
  p2 = p2
  x = x
  y = y
  None = None
  Tablet = {t1}
  Ahead <- RightClocks
  Path = {p1}
  Body = {x, y}
  Keep = 2
  Jobs = {"tick", "pull"}
  MayOverlap = TRUE
  PiUplink = FALSE
  PageSize = 1
  MaxTime = 3
  MaxMishaps = 1
  MaxLate = 1
INVARIANTS FetchedIsRead
