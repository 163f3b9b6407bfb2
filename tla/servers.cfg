SPECIFICATION Spec
CONSTANTS
  r1 = r1
  r2 = r2
  p1 = p1
  p2 = p2
  Requests = {r1, r2}
  Files = {f1}
  Servers = {p1, p2}
  Home <- OneOnEach
  MaxCrashes = 1
  NoCopy = NoCopy
INVARIANTS
  TypeOK
  OnlyStartsFail
PROPERTIES
  UpdatesAreAtomic
CHECK_DEADLOCK FALSE
